---- MODULE Spec2Model ----
(***************************************************************************)
(* Model of the block-headers client.                                      *)
(*                                                                         *)
(* Part 1: BlockHeadersDatabase (the header graph): _insert / addHeaders   *)
(* and pruneBranches, over a small universe of block headers.              *)
(*                                                                         *)
(* A header is identified by its hash.  The hash is the double SHA-256 of  *)
(* the 80 header bytes, so prevHashHex and work (a function of the bits    *)
(* field) are functions of the hash: Prev and Work below.                  *)
(*                                                                         *)
(* Part 2: getBlockLocatorHashBuffers over long chains.                    *)
(*                                                                         *)
(* Part 3: LegacyNodeConnection (one session with one peer): handshake,    *)
(* request correlators, timeouts, cancellation and disconnect events.      *)
(*                                                                         *)
(* Part 4: BlockHeadersClient lifecycle: start / stop, the connect-to-nodes *)
(* queue, the node connections health monitor and the pool of sessions.    *)
(***************************************************************************)
EXTENDS Integers, Sequences, FiniteSets, TLC

\* ------------------------------------------------------------------------
\* The universe of headers a peer can send.
\*
\*        0 (genesis, work 1)
\*        |-- 1 (work 1) -- 2 (work 1) -- 5 (work 5, INVALID) -- 6 (work 1)
\*        `-- 3 (work 2) -- 4 (work 0) -- 7 (work 1)
\*
\* Header 4 has work 0: bits with a target above 2^256 pass the proof of
\* work check and give floor(2^256 / target) = 0.
\* ------------------------------------------------------------------------
GENESIS == 0

\* prevHashHex of the genesis header (all zeroes): the hash of no header.
GENESIS_PREV_HASH_HEX == -1

Hashes == 0 .. 7

Prev == [h \in Hashes |->
           CASE h = 0 -> GENESIS_PREV_HASH_HEX
             [] h = 1 -> 0
             [] h = 2 -> 1
             [] h = 3 -> 0
             [] h = 4 -> 3
             [] h = 5 -> 2
             [] h = 6 -> 5
             [] h = 7 -> 4]

\* BlockHeaderMutable.work: floor(2^256 / target(bits)).
Work == [h \in Hashes |->
           CASE h = 0 -> 1
             [] h = 1 -> 1
             [] h = 2 -> 1
             [] h = 3 -> 2
             [] h = 4 -> 0
             [] h = 5 -> 5
             [] h = 6 -> 1
             [] h = 7 -> 1]

\* The invalidBlocks option given to the constructor.
invalidBlocks == {5}

\* Longest batch handed to addHeaders.
MaxBatch == 3

\* All sequences over S of length at most n.
SeqUpTo(S, n) == UNION {[1 .. k -> S] : k \in 0 .. n}

Batches == SeqUpTo(Hashes, MaxBatch)

\* ------------------------------------------------------------------------
\* State
\* ------------------------------------------------------------------------
VARIABLES
    allHeaders,             \* _allHeaders: hash -> [height, workTotal]
    headersTree,            \* _headersTree: hash -> set of child hashes
    headersTreeLeafHashes,  \* _headersTreeLeafHashes, in Set insertion order
    sortedHeaders,          \* _sortedHeaders: the longest chain, genesis first
    sortedHeadersIndex,     \* _sortedHeadersIndex: hash -> position
    lastOp,                 \* the call whose result the caller holds, or "idle"
    batch,                  \* the argument of that call, when it is addHeaders
    changes,                \* the AddHeadersChanges it returned
    numPruned,              \* the number it returned, when it is pruneBranches
    before,                 \* the graph as it was when that call was made
    exited                  \* TRUE once assert() has called process.exit(1)

\* Part 2 (block locator): a longest chain far longer than the universe of
\* Part 1 allows, and the locator last computed from it.
VARIABLES
    locatorSortedHeaders,   \* _sortedHeaders, as a sequence of hashes
    locatorHashes,          \* the array getBlockLocatorHashBuffers returned
    locatorOp               \* "idle", or the call whose result is held

graphVars == <<allHeaders, headersTree, headersTreeLeafHashes, sortedHeaders,
               sortedHeadersIndex>>

callVars == <<lastOp, batch, changes, numPruned, before>>

\* Part 3 (one LegacyNodeConnection).
VARIABLES
    socket,             \* TRUE while _socket is set
    verackSent,         \* _verackSent
    wasConnected,       \* _wasConnected
    pingIntervalId,     \* TRUE while _pingIntervalId is not null
    pendingConnect,     \* _pendingConnect: {} (null) or one entry
    pendingPongs,       \* _pendingPongs: one entry per nonce
    pendingGetHeaders,  \* _pendingGetHeaders: {} (null) or one entry
    pendingGetAddr,     \* _pendingGetAddr: {} (null) or one entry
    syncingHeaders,     \* _syncingHeaders
    syncHeadersQueue,   \* the links chained on _syncHeadersQueue, unsettled
    syncSettled,        \* how the promise before the first link settled
    aborted,            \* the cancellation tokens that have been aborted
    ready,              \* verack was handled on the transport now open
    everReady,          \* the session was Ready at some time
    trigger,            \* the handler that ran last, or "idle"
    emitted,            \* the events it emitted, in order
    settled,            \* the waiters it resolved or rejected
    callResult,         \* what the call returned or threw, when it is a call
    arg,                \* the signal and the nonce the handler was given
    pre                 \* the session as it was when the handler started

\* Part 4 (the BlockHeadersClient and its pool of sessions).
VARIABLES
    abortController,    \* _abortController: the generation of the controller
    abortedControllers, \* the generations whose signal is aborted
    stopQueue,          \* _stopQueue: 0 (null) or the stop that is running
    stopPc,             \* where the callback of that stop is
    stopAwaits,         \* the link of _connectToNodesQueue that stop awaits
    stopAwaitsLatest,   \* stop awaits the newest promise of the monitor
    stopsResolved,      \* the stops whose promise has resolved
    numStops,           \* how many stops were started
    connectToNodesQueue, \* the links chained on _connectToNodesQueue
    numConnectToNodesQueues, \* _numConnectToNodesQueues
    linkAwaits,         \* the stop whose promise the running link awaits
    linkToken,          \* the controller the running link captured
    linkWorker,         \* the session the worker of the link is testing
    healthMonitorQueue, \* TRUE while _nodeConnectionsHealthMonitorQueue is set
    monitorLoop,        \* the while loop of the health monitor
    monitorIteration,   \* the newest callback chained by that loop
    monitorToken,       \* the signal the health monitor was launched with
    monitorWorker,      \* the session the worker of the monitor is testing
    nodeConnections,    \* the keys of _nodeConnections
    nodeConnectionsConnected, \* the keys of _nodeConnectionsConnected
    activeNodeConnectionTests, \* the keys of _activeNodeConnectionTests
    sessionToken,       \* the clientStopSignal each session was created with
    sessionPending,     \* the pending waiter of each session
    startCall,          \* the last start() call: the stop that was running
                        \* and the link whose promise it was returned
    clientOp            \* the step that ran last

\* Part 5 (the NodesDatabase).  Times are in days, not milliseconds.
VARIABLES
    ipPortStringToMetrics,  \* _ipPortStringToMetrics
    ipPortStringToRating,   \* _ipPortStringToRating
    nonBlacklistedIpPortStrings, \* _nonBlacklistedIpPortStrings
    seenTimeToIpPortStringSet, \* _seenTimeToIpPortStringSet, as the set of
                            \* the pairs <<seen time, peer>> it holds
    ratingsUpdatedRecently, \* _timeOfLastRatingsUpdateMs + 10 s is later
                            \* than performance.now()
    dateNow,                \* Date.now() of the last call
    nodesOp,                \* the last call: its name, peers, time, result
    nodesPre,               \* the database as it was before that call
    nodesEvents,            \* every ping and disconnect event of a peer, in
                            \* the order of the calls
    numNodesCalls           \* how many calls were made

\* Part 6 (the framing of the peer-to-peer messages).
VARIABLES
    frameMagic,         \* the magic the frames are built and parsed with
    frameMessages,      \* the messages whose frames are in the buffer
    frameTail,          \* the bytes of the incomplete frame at its end
    frameBuffer,        \* the bytes received
    frameResult,        \* what parseMessages returned for the buffer
    frameOp             \* the step that ran last

\* Part 7 (the pool's handler of disconnect_unintentional_after_connect).
\* Times are performance.now() in milliseconds.
VARIABLES
    poolConnected,      \* the keys of _nodeConnectionsConnected
    nodeEventTimes,     \* _nodeEventTimes_disconnect_unintentional_after_connect
    handlers,           \* the handler of each session: where it is, and
                        \* the locals it holds
    performanceNow,     \* performance.now()
    clientStopAborted,  \* clientStopSignal.aborted
    poolHistory,        \* of each session: when it disconnected, the
                        \* sessions verified then, and the sessions that had
                        \* disconnected when its wait ended
    poolOp              \* the step that ran last

poolEventVars == <<poolConnected, nodeEventTimes, handlers, performanceNow,
                   clientStopAborted, poolHistory, poolOp>>

\* Part 8 (the workers of _connectToNodes and the sessions they test).
VARIABLES
    workerPc,           \* where each worker is in _createConnectedNodeConnection
    workerSession,      \* the session it is testing, or 0
    testedConnections,  \* the keys of _nodeConnections (sessions not destroyed)
    testedConnected,    \* the keys of _nodeConnectionsConnected among them
    numConnectedBefore, \* how many older sessions _nodeConnectionsConnected holds
    eventHandler,       \* the handler of an unintentional disconnect that
                        \* awaits, of each session
    localAborted,       \* localAbortController.signal.aborted
    stopAborted,        \* clientStopSignal.aborted
    sessionLog,         \* of each session: whether it was created, and
                        \* whether its peer or its transport has failed it
    workerOp            \* the step that ran last: its name, the session,
                        \* and the penalties recorded in it

workerVars == <<workerPc, workerSession, testedConnections,
                testedConnected, numConnectedBefore, eventHandler,
                localAborted, stopAborted, sessionLog, workerOp>>

\* Part 9 (saving the longest chain): the LevelDB store of the
\* BlockHeadersDatabase of Part 1 and the queue of its writes.
VARIABLES
    levelDbHeaders,         \* _levelDbHeaders: height -> header
    levelDbHeadersSaveQueue,
                            \* _levelDbHeadersSaveQueue: the changes of the
                            \* .then links that have not run to their end
    addHeadersChangesLevelDbSaveQueue,
                            \* _addHeadersChangesLevelDbSaveQueue
    saveWriting,            \* TRUE while a batch() call is awaited
    saveAccepted,           \* the changes addHeaders queued, in call order
    saveWritten,            \* the changes whose batch() resolved, in order
    saveLogged,             \* number of console.error calls of the queue
    saveOp                  \* the last step of this part

saveVars == <<levelDbHeaders, levelDbHeadersSaveQueue,
              addHeadersChangesLevelDbSaveQueue, saveWriting, saveAccepted,
              saveWritten, saveLogged, saveOp>>

\* Part 10 (the pool's header syncs and pruneBranches): the sessions whose
\* syncHeaders the client has called, and the calls that wait for them.
VARIABLES
    nodesSyncingHeaders,    \* _nodesSyncingHeaders
    syncHeadersQueues,      \* per session, the links of _syncHeadersQueue
                            \* that have not settled; the first one runs
                            \* its loop (_syncingHeaders is true)
    syncQueueRejected,      \* per session, whether _syncHeadersQueue is a
                            \* rejected promise
    syncNextLink,           \* per session, number of links chained so far
    syncCallers,            \* the client's calls awaiting syncHeaders
    syncConnected,          \* keys of _nodeConnectionsConnected
    syncOp                  \* the last step of this part

syncPoolVars == <<nodesSyncingHeaders, syncHeadersQueues, syncQueueRejected,
                  syncNextLink, syncCallers, syncConnected, syncOp>>

\* Part 11 (the loop of _syncHeaders): one session's loop with the headers
\* it downloads, over the graph of Part 1 or over a tall chain.
VARIABLES
    loopPc,                 \* "idle", "getHeaders" (the loop awaits it),
                            \* "sleep" (it awaits abortableSleepMsThrow),
                            \* "destroyed" (a handler destroyed the
                            \* session) or "rejected" (the loop threw)
    loopSession,            \* _tipHashHex, _startingTipHashHex and the
                            \* locals waitedForOtherNodeToSync and from
    lastTimeChainTipExtended,
                            \* _lastTimeChainTipExtendedMs against now:
                            \* "undefined", "recent" (under 5 s) or "old"
    tallTipHeight,          \* tall chain: height of the tip; header h of
                            \* the longest chain has hash h
    tallForks,              \* tall chain: headers known beside that chain
    loopOp                  \* the last step of this part

loopVars == <<loopPc, loopSession, lastTimeChainTipExtended, tallTipHeight,
              tallForks, loopOp>>

\* Part 12: the keepalive interval of a session (_setPingInterval)
VARIABLES
    pingNowMs,               \* performance.now()
    pingNextTickMs,          \* time of the next tick of the interval, or -1
    lastPingIntervalTimeMs,  \* the local of _setPingInterval
    keepalivePongs,          \* start times of the pings awaiting their pong
    keepaliveReady,          \* connected()
    keepaliveOp              \* the last step, its inputs and its outcome

keepaliveVars == <<pingNowMs, pingNextTickMs, lastPingIntervalTimeMs,
                   keepalivePongs, keepaliveReady, keepaliveOp>>

\* Part 13: the socket a session has destroyed (_disconnectNoEmit)
VARIABLES
    lateClosePending,    \* a destroyed socket has yet to emit 'close'
    lateCloseListeners   \* that socket still has the listeners of connect()

transportVars == <<lateClosePending, lateCloseListeners>>

\* Part 14: one BlockHeaderMutable.
VARIABLES
    headerHeight,       \* _height, NOT_SET when undefined
    headerWorkTotal,    \* _workTotal, NOT_SET when undefined
    headerOp,           \* the last call on the header
    numHeaderCalls      \* calls so far

headerVars == <<headerHeight, headerWorkTotal, headerOp, numHeaderCalls>>

locatorVars == <<locatorSortedHeaders, locatorHashes, locatorOp>>

connVars == <<socket, verackSent, wasConnected, pingIntervalId,
              pendingConnect, pendingPongs, pendingGetHeaders,
              pendingGetAddr>>

syncVars == <<syncingHeaders, syncHeadersQueue, syncSettled>>

sessionVars == <<connVars, syncVars, aborted, ready, everReady, trigger,
                 emitted, settled, callResult, arg, pre>>

stopVars == <<stopQueue, stopPc, stopAwaits, stopAwaitsLatest,
              stopsResolved, numStops>>

linkVars == <<connectToNodesQueue, numConnectToNodesQueues, linkAwaits,
              linkToken, linkWorker>>

monitorVars == <<healthMonitorQueue, monitorLoop, monitorIteration,
                 monitorToken, monitorWorker>>

poolVars == <<nodeConnections, nodeConnectionsConnected,
              activeNodeConnectionTests, sessionToken, sessionPending>>

clientVars == <<abortController, abortedControllers, stopVars, linkVars,
                monitorVars, poolVars, startCall, clientOp>>

nodesVars == <<ipPortStringToMetrics, ipPortStringToRating,
               nonBlacklistedIpPortStrings, seenTimeToIpPortStringSet,
               ratingsUpdatedRecently, dateNow, nodesOp, nodesPre,
               nodesEvents, numNodesCalls>>

frameVars == <<frameMagic, frameMessages, frameTail, frameBuffer,
               frameResult, frameOp>>

\* Everything that is not state of Part 1.
notGraphVars == <<locatorVars, sessionVars, clientVars, nodesVars,
                 frameVars,
                  poolEventVars,
                  workerVars,
                  saveVars,
                  syncPoolVars,
                  loopVars,
                  keepaliveVars,
                  transportVars,
                  headerVars>>

vars == <<graphVars, callVars, exited, notGraphVars>>

\* The session as one value, so that the handlers can be written as
\* operators from session to session.
Session == [socket            |-> socket,
            verackSent        |-> verackSent,
            wasConnected      |-> wasConnected,
            pingIntervalId    |-> pingIntervalId,
            pendingConnect    |-> pendingConnect,
            pendingPongs      |-> pendingPongs,
            pendingGetHeaders |-> pendingGetHeaders,
            pendingGetAddr    |-> pendingGetAddr]

\* The header graph as one value, so that _insert and pruneBranches can be
\* written as operators from graph to graph.
Graph == [all    |-> allHeaders,
          tree   |-> headersTree,
          leaves |-> headersTreeLeafHashes,
          sorted |-> sortedHeaders,
          index  |-> sortedHeadersIndex]

\* ------------------------------------------------------------------------
\* JavaScript Set / Map / Array helpers
\* ------------------------------------------------------------------------
Range(s) == {s[i] : i \in 1 .. Len(s)}

\* Set.prototype.delete on an insertion-ordered Set.
SetDelete(s, x) == SelectSeq(s, LAMBDA y : y # x)

\* Set.prototype.add on an insertion-ordered Set: a present element keeps its
\* place, a new one goes last.
SetAdd(s, x) == IF x \in Range(s) THEN s ELSE Append(s, x)

\* Map.prototype.set.
MapSet(m, k, v) == [x \in (DOMAIN m) \cup {k} |-> IF x = k THEN v ELSE m[x]]

\* Map.prototype.delete for a set of keys.
MapDeleteAll(m, ks) == [x \in (DOMAIN m) \ ks |-> m[x]]

\* Array.prototype.at(-1).
Last(s) == s[Len(s)]

\* A bug: the call to reverse() is left out.
ReverseForgotten(s) == s

\* Array.prototype.reverse.
Reverse(s) == [i \in 1 .. Len(s) |-> s[Len(s) + 1 - i]]

\* getHeaderTip
getHeaderTip(g) == Last(g.sorted)

\* ------------------------------------------------------------------------
\* Constructor (fromGenesis)
\* ------------------------------------------------------------------------
EmptyChanges == [headersRemovedFromLongestChain |-> <<>>,
                 headersAddedToLongestChain     |-> <<>>,
                 headersInvalidated             |-> <<>>]

GraphInit ==
    /\ allHeaders = (GENESIS :> [height |-> 0, workTotal |-> Work[GENESIS]])
    /\ headersTree = (GENESIS :> {})
    /\ headersTreeLeafHashes = <<GENESIS>>
    /\ sortedHeaders = <<GENESIS>>
    /\ sortedHeadersIndex = (GENESIS :> 0)
    /\ lastOp = "idle"
    /\ batch = <<>>
    /\ changes = EmptyChanges
    /\ numPruned = 0
    /\ before = Graph
    /\ exited = FALSE

\* The locator part before any header beyond genesis is known.
LocatorInit ==
    /\ locatorSortedHeaders = <<GENESIS>>
    /\ locatorHashes = <<>>
    /\ locatorOp = "idle"

\* A LegacyNodeConnection straight after its constructor.
SessionInit ==
    /\ socket = FALSE
    /\ verackSent = FALSE
    /\ wasConnected = FALSE
    /\ pingIntervalId = FALSE
    /\ pendingConnect = {}
    /\ pendingPongs = {}
    /\ pendingGetHeaders = {}
    /\ pendingGetAddr = {}
    /\ syncingHeaders = FALSE
    /\ syncHeadersQueue = <<>>
    /\ syncSettled = "fulfilled"
    /\ aborted = {}
    /\ ready = FALSE
    /\ everReady = FALSE
    /\ trigger = "idle"
    /\ emitted = <<>>
    /\ settled = {}
    /\ callResult = "none"
    /\ arg = [signal |-> 0, nonce |-> 0]
    /\ pre = [session |-> Session, ready |-> FALSE,
              syncing |-> FALSE, queue |-> <<>>]

\* The nodes of the nodes database the workers can pick, the number of
\* stop() calls that start a stop, and the number of links chained on
\* _connectToNodesQueue.
MaxNodes == 2

MaxStops == 2

MaxLinks == 2

Nodes == 1..MaxNodes

\* A BlockHeadersClient straight after its constructor.
ClientInit ==
    /\ abortController = 1
    /\ abortedControllers = {}
    /\ stopQueue = 0
    /\ stopPc = "idle"
    /\ stopAwaits = 0
    /\ stopAwaitsLatest = FALSE
    /\ stopsResolved = {}
    /\ numStops = 0
    /\ connectToNodesQueue = <<>>
    /\ numConnectToNodesQueues = 0
    /\ linkAwaits = 0
    /\ linkToken = 0
    /\ linkWorker = 0
    /\ healthMonitorQueue = FALSE
    /\ monitorLoop = "none"
    /\ monitorIteration = "none"
    /\ monitorToken = 0
    /\ monitorWorker = 0
    /\ nodeConnections = {}
    /\ nodeConnectionsConnected = {}
    /\ activeNodeConnectionTests = {}
    /\ sessionToken = [n \in Nodes |-> 0]
    /\ sessionPending = [n \in Nodes |-> "none"]
    /\ startCall = [stop |-> 0, link |-> 0]
    /\ clientOp = "idle"

\* The peers the database can be told about.
MaxPeers == 2

Peers == 1 .. MaxPeers

\* The time of the first call, late enough for every event the threshold
\* is computed from to have a positive time.
FIRST_CALL_TIME == 100

\* A new database on an empty directory: open() finds no metrics.
NodesInit ==
    /\ ipPortStringToMetrics = <<>>
    /\ ipPortStringToRating = <<>>
    /\ nonBlacklistedIpPortStrings = {}
    /\ seenTimeToIpPortStringSet = {}
    /\ ratingsUpdatedRecently = TRUE
    /\ dateNow = FIRST_CALL_TIME
    /\ nodesOp = [name |-> "open", ipPorts |-> {}, timeMs |-> FIRST_CALL_TIME,
                  result |-> FALSE]
    /\ nodesPre = [metrics |-> <<>>, rating |-> <<>>, nonBlacklisted |-> {},
                   seen |-> {}]
    /\ nodesEvents = [p \in Peers |->
                        [ping |-> <<>>, before |-> <<>>, after |-> <<>>]]
    /\ numNodesCalls = 0

\* The network magic of mainnet and that of testnet.
Magics == {<<227, 225, 243, 232>>, <<244, 229, 243, 244>>}

\* Nothing was received yet.
FrameInitOf(magics) ==
    /\ frameMagic \in magics
    /\ frameMessages = <<>>
    /\ frameTail = <<>>
    /\ frameBuffer = <<>>
    /\ frameResult = [messages |-> <<>>, remaining |-> <<>>, errors |-> <<>>]
    /\ frameOp = "none"

TARGET_NUM_CONNECTIONS == 8

\* The sessions of the pool.
PoolPeers == 1 .. TARGET_NUM_CONNECTIONS

\* A handler that has not run.
NoHandler ==
    [pc |-> "none", startTimeMs |-> 0, nodesBefore |-> {},
     nodesAfter |-> {}, wasConnectedAndTested |-> FALSE]

\* A running client whose pool holds so many verified sessions.
PoolEventInitOf(sizes) ==
    /\ poolConnected \in {1 .. n : n \in sizes}
    /\ nodeEventTimes = <<>>
    /\ handlers = [p \in PoolPeers |-> NoHandler]
    /\ performanceNow = 0
    /\ clientStopAborted = FALSE
    /\ poolHistory = [p \in PoolPeers |->
                        [time |-> -1, connected |-> {}, known |-> {}]]
    /\ poolOp = [name |-> "none", peer |-> 0, connectedToInternet |-> FALSE,
                 penalty |-> FALSE]

\* The workers that run of the NUM_WORKERS (2 * TARGET_NUM_CONNECTIONS)
\* launched, and the sessions they create.
MaxWorkers == 2

MaxSessions == 2

Workers == 1 .. MaxWorkers

Sessions == 1 .. MaxSessions

\* _connectToNodes has launched its workers, with so many sessions verified.
WorkerInitOf(sizes) ==
    /\ workerPc = [w \in Workers |-> "loop"]
    /\ workerSession = [w \in Workers |-> 0]
    /\ testedConnections = {}
    /\ testedConnected = {}
    /\ numConnectedBefore \in sizes
    /\ eventHandler = [s \in Sessions |->
                         [pc |-> "none", wasConnectedAndTested |-> FALSE]]
    /\ localAborted = FALSE
    /\ stopAborted = FALSE
    /\ sessionLog = [s \in Sessions |->
                        [created |-> FALSE, failed |-> FALSE]]
    /\ workerOp = [name |-> "none", session |-> 0, penalties |-> {}]

\* The parts of the model do not share state: each specification starts
\* the other parts in one state, and draws the inputs of its own.
FrameIdle == FrameInitOf({<<227, 225, 243, 232>>})

PoolEventIdle == PoolEventInitOf({TARGET_NUM_CONNECTIONS})

WorkerIdle == WorkerInitOf({TARGET_NUM_CONNECTIONS - 1})

\* A BlockHeadersDatabase made by fromGenesis over an empty store: the
\* genesis header is never saved.
SaveInit ==
    /\ levelDbHeaders = <<>>
    /\ levelDbHeadersSaveQueue = <<>>
    /\ addHeadersChangesLevelDbSaveQueue = <<>>
    /\ saveWriting = FALSE
    /\ saveAccepted = <<>>
    /\ saveWritten = <<>>
    /\ saveLogged = 0
    /\ saveOp = [name |-> "none", levelDbHeaders |-> <<>>, graph |-> Graph,
                 logged |-> 0]

\* The sessions of this part.
MaxSyncPeers == 2

SyncPeers == 1 .. MaxSyncPeers

\* One session is verified, the others are connected and not yet tested.
SyncPoolInit ==
    /\ nodesSyncingHeaders = {}
    /\ syncHeadersQueues = [s \in SyncPeers |-> <<>>]
    /\ syncQueueRejected = [s \in SyncPeers |-> FALSE]
    /\ syncNextLink = [s \in SyncPeers |-> 0]
    /\ syncCallers = {}
    /\ syncConnected = {1}
    /\ syncOp = [name |-> "none", prunes |-> 0, syncing |-> {}]

\* No event.
NoEvents == <<>>

\* A session straight after its constructor, over a database that holds
\* the genesis header only and was not extended in this run.
LoopInit ==
    /\ loopPc = "idle"
    /\ loopSession = [tipHashHex |-> GENESIS, startingTipHashHex |-> GENESIS,
                      waitedForOtherNodeToSync |-> FALSE,
                      fromLocator |-> TRUE]
    /\ lastTimeChainTipExtended = "undefined"
    /\ tallTipHeight = 0
    /\ tallForks = {}
    /\ loopOp = [name |-> "none", events |-> NoEvents, headers |-> <<>>,
                 resets |-> 0,
                 headersSinceReset |-> FALSE, sent |-> FALSE]

\* Number.MIN_SAFE_INTEGER / 2, cut to the width of the integers here.
INIT_lastKnownConnectionTimeMs == -1073741824

\* The session is connected and its interval is not set yet.
KeepaliveInit ==
    /\ pingNowMs = 0
    /\ pingNextTickMs = -1
    /\ lastPingIntervalTimeMs = INIT_lastKnownConnectionTimeMs
    /\ keepalivePongs = {}
    /\ keepaliveReady = TRUE
    /\ keepaliveOp = [name |-> "none", timeSince |-> 0, elapsed |-> 0,
                      pinged |-> FALSE, lastPingMs |-> 0]

\* No socket was created yet.
TransportInit ==
    /\ lateClosePending = FALSE
    /\ lateCloseListeners = FALSE

\* An optional field that was never assigned.
NOT_SET == -1

\* fromBuffer of a header that is not the genesis header: the constructor
\* leaves _height and _workTotal undefined.
HeaderInit ==
    /\ headerHeight = NOT_SET
    /\ headerWorkTotal = NOT_SET
    /\ headerOp = [name |-> "fromBuffer", value |-> NOT_SET, threw |-> FALSE,
                   height |-> NOT_SET, workTotal |-> NOT_SET]
    /\ numHeaderCalls = 0

Init ==
    /\ GraphInit
    /\ LocatorInit
    /\ SessionInit
    /\ ClientInit
    /\ NodesInit
    /\ FrameIdle
    /\ PoolEventIdle
    /\ WorkerIdle
    /\ SaveInit
    /\ SyncPoolInit
    /\ LoopInit
    /\ KeepaliveInit
    /\ TransportInit
    /\ HeaderInit

\* The framing starts with the magic of either network.
FrameInit ==
    /\ GraphInit
    /\ LocatorInit
    /\ SessionInit
    /\ ClientInit
    /\ NodesInit
    /\ FrameInitOf(Magics)
    /\ PoolEventIdle
    /\ WorkerIdle
    /\ SaveInit
    /\ SyncPoolInit
    /\ LoopInit
    /\ KeepaliveInit
    /\ TransportInit
    /\ HeaderInit

\* The pool holds between one and the target number of verified sessions.
PoolEventInit ==
    /\ GraphInit
    /\ LocatorInit
    /\ SessionInit
    /\ ClientInit
    /\ NodesInit
    /\ FrameIdle
    /\ PoolEventInitOf(PoolPeers)
    /\ WorkerIdle
    /\ SaveInit
    /\ SyncPoolInit
    /\ LoopInit
    /\ KeepaliveInit
    /\ TransportInit
    /\ HeaderInit

\* Fewer sessions than the target are verified, and so many that the
\* workers can reach it.
WorkerInit ==
    /\ GraphInit
    /\ LocatorInit
    /\ SessionInit
    /\ ClientInit
    /\ NodesInit
    /\ FrameIdle
    /\ PoolEventIdle
    /\ WorkerInitOf((TARGET_NUM_CONNECTIONS - MaxWorkers)
                      .. (TARGET_NUM_CONNECTIONS - 1))
    /\ SaveInit
    /\ SyncPoolInit
    /\ LoopInit
    /\ KeepaliveInit
    /\ TransportInit
    /\ HeaderInit

\* ------------------------------------------------------------------------
\* _insert
\* ------------------------------------------------------------------------

\* A bug: an assert that logs and goes on.
assertLogOnly(condition) == TRUE

\* Whether assert(condition) lets the program go on.
assert(condition) == condition

\* The filter at the top of _insert: known headers are dropped from the batch
\* only when the longest chain holds more than genesis.
FilterNewHeaders(g, newHeaders) ==
    IF Len(g.sorted) > 1
    THEN SelectSeq(newHeaders, LAMBDA h : h \notin DOMAIN g.all)
    ELSE newHeaders

\* A bug: the test of the inner loop written the wrong way round.
ChainsOntoInverted(header, lastHeaderChecked) ==
    Prev[header] # lastHeaderChecked

\* The test that keeps the inner loop below going: the header's prevHashHex
\* is the hash of the header checked last.
ChainsOnto(header, lastHeaderChecked) ==
    Prev[header] = lastHeaderChecked

\* The inner loop run when a header is in _invalidBlocks: the following
\* headers are collected for as long as each chains onto the one before.
\* acc is not empty; its last element is lastHeaderChecked.
RECURSIVE CollectInvalidated(_, _, _)
CollectInvalidated(newHeaders, i, acc) ==
    IF i > Len(newHeaders) THEN acc
    ELSE IF ~ChainsOnto(newHeaders[i], Last(acc)) THEN acc
    ELSE CollectInvalidated(newHeaders, i + 1, Append(acc, newHeaders[i]))

\* A bug: the header's own work is left out of its workTotal.
LinkedWorkTotalNoWork(prevWorkTotal, work) == prevWorkTotal

\* workTotal given to a header being linked under prevHeader.
LinkedWorkTotal(prevWorkTotal, work) == prevWorkTotal + work

\* The body of the scan loop for a header that is linked into the graph.
LinkHeader(g, header) ==
    LET prevHash == Prev[header]
        prevHeader == g.all[prevHash]
        tree1 == [g.tree EXCEPT ![prevHash] = @ \cup {header}]
    IN [g EXCEPT
          !.all = MapSet(g.all, header,
                         [height    |-> prevHeader.height + 1,
                          workTotal |-> LinkedWorkTotal(prevHeader.workTotal,
                                                        Work[header])]),
          !.tree = MapSet(tree1, header, {}),
          !.leaves = SetAdd(SetDelete(g.leaves, prevHash), header)]

\* A bug: the prevHashHex is looked up in _invalidBlocks, not the hashHex.
IsInvalidBlockByPrev(header) == Prev[header] \in invalidBlocks

\* this._invalidBlocks.has(header.hashHex)
IsInvalidBlock(header) == header \in invalidBlocks

\* A bug: "continue" written for "break" on a broken chain.
AfterBrokenChainContinue(i, length) == i + 1

\* The position the scan goes on from after a broken chain: "break" leaves
\* the loop, which is the position past the end of the batch.
AfterBrokenChain(i, length) == length + 1

\* The scan loop of _insert from position i on.  Returns the graph and
\* headersInvalidated.
RECURSIVE ScanNewHeaders(_, _, _)
ScanNewHeaders(g, newHeaders, i) ==
    IF i > Len(newHeaders)
    THEN [g |-> g, headersInvalidated |-> <<>>]
    ELSE LET header == newHeaders[i] IN
         IF Prev[header] \notin DOMAIN g.all            \* broken chain
         THEN ScanNewHeaders(g, newHeaders,
                             AfterBrokenChain(i, Len(newHeaders)))
         ELSE IF Prev[header] \notin DOMAIN g.tree      \* broken chain
         THEN ScanNewHeaders(g, newHeaders,
                             AfterBrokenChain(i, Len(newHeaders)))
         ELSE IF IsInvalidBlock(header)
         THEN [g |-> g,
               headersInvalidated |->
                   CollectInvalidated(newHeaders, i + 1, <<header>>)]
         ELSE ScanNewHeaders(LinkHeader(g, header), newHeaders, i + 1)

\* A bug: ">=" written for ">".
LeafBeatsOrTies(leafWorkTotal, maxWorkTotal) == leafWorkTotal >= maxWorkTotal

\* The comparison that lets a leaf replace the best tip found so far.
LeafBeats(leafWorkTotal, maxWorkTotal) == leafWorkTotal > maxWorkTotal

\* The workTotal the search for the heaviest leaf starts from: the tip's.
InitialMaxWorkTotal(g) == g.all[Last(g.sorted)].workTotal

\* A bug: maxWorkTotal is not updated when a heavier leaf is found, so the
\* last leaf heavier than the tip wins.
RECURSIVE FindChainTipNoUpdate(_, _, _, _)
FindChainTipNoUpdate(g, i, newChainTipHash, maxWorkTotal) ==
    IF i > Len(g.leaves) THEN newChainTipHash
    ELSE LET leaf == g.leaves[i] IN
         IF g.all[leaf].workTotal > maxWorkTotal
         THEN FindChainTipNoUpdate(g, i + 1, leaf, maxWorkTotal)
         ELSE FindChainTipNoUpdate(g, i + 1, newChainTipHash, maxWorkTotal)

\* "Find the leaf header with the highest work total": one pass over the
\* leaf set in insertion order, starting from the current tip.
RECURSIVE FindChainTip(_, _, _, _)
FindChainTip(g, i, newChainTipHash, maxWorkTotal) ==
    IF i > Len(g.leaves) THEN newChainTipHash
    ELSE LET leaf == g.leaves[i] IN
         IF LeafBeats(g.all[leaf].workTotal, maxWorkTotal)
         THEN FindChainTip(g, i + 1, leaf, g.all[leaf].workTotal)
         ELSE FindChainTip(g, i + 1, newChainTipHash, maxWorkTotal)

\* The walk from the new tip back to the first header on the old longest
\* chain.  Returns headersToAdd before it is reversed, and the header the
\* walk ended on.
RECURSIVE WalkToLongestChain(_, _, _)
WalkToLongestChain(g, currentHeader, headersToAdd) ==
    IF currentHeader \in DOMAIN g.all /\ currentHeader \notin DOMAIN g.index
    THEN WalkToLongestChain(g, Prev[currentHeader],
                            Append(headersToAdd, currentHeader))
    ELSE [headersToAdd |-> headersToAdd, currentHeader |-> currentHeader]

\* A bug: the chain is cut at the common header, not above it.
NewStartingHeightAtCommon(commonHeight) == commonHeight

\* newStartingHeight: the last header in common with the old chain + 1.
NewStartingHeight(commonHeight) == commonHeight + 1

\* Array.prototype.push of headersToAdd onto the spliced chain, with the
\* index entries.
RECURSIVE PushAll(_, _, _, _)
PushAll(g, headersToAdd, k, newStartingHeight) ==
    IF k > Len(headersToAdd) THEN g
    ELSE PushAll([g EXCEPT
                    !.sorted = Append(g.sorted, headersToAdd[k]),
                    !.index = MapSet(g.index, headersToAdd[k],
                                     newStartingHeight + (k - 1))],
                 headersToAdd, k + 1, newStartingHeight)

\* _insert: returns the new graph, the AddHeadersChanges, and whether the
\* final assert held.
insert(g0, headers) ==
    LET newHeaders == FilterNewHeaders(g0, headers) IN
    IF Len(newHeaders) = 0
    THEN [g |-> g0, changes |-> EmptyChanges, ok |-> TRUE]
    ELSE
    LET scan == ScanNewHeaders(g0, newHeaders, 1)
        g1 == scan.g
        oldTip == Last(g1.sorted)
        newChainTipHash ==
            FindChainTip(g1, 1, oldTip, InitialMaxWorkTotal(g1))
    IN
    IF newChainTipHash = oldTip
    THEN [g |-> g1,
          changes |-> [EmptyChanges EXCEPT
                         !.headersInvalidated = scan.headersInvalidated],
          ok |-> TRUE]
    ELSE
    LET walk == WalkToLongestChain(g1, newChainTipHash, <<>>)
        headersToAdd == Reverse(walk.headersToAdd)
        newStartingHeight ==
            NewStartingHeight(g1.all[walk.currentHeader].height)
        \* splice(newStartingHeight): positions are 0-based in the code
        headersRemoved ==
            SubSeq(g1.sorted, newStartingHeight + 1, Len(g1.sorted))
        g2 == [g1 EXCEPT
                 !.sorted = SubSeq(g1.sorted, 1, newStartingHeight),
                 !.index = MapDeleteAll(g1.index, Range(headersRemoved))]
        g3 == PushAll(g2, headersToAdd, 1, newStartingHeight)
    IN [g |-> g3,
        changes |-> [headersRemovedFromLongestChain |-> headersRemoved,
                     headersAddedToLongestChain     |-> headersToAdd,
                     headersInvalidated |-> scan.headersInvalidated],
        ok |-> assert(Cardinality(DOMAIN g3.index) = Len(g3.sorted))]

\* addHeaders(headers): _insert, then the changes are queued for saving.
\* op names the call in lastOp.
addHeaders(headers, op) ==
    /\ ~exited
    /\ LET r == insert(Graph, headers) IN
       /\ allHeaders' = r.g.all
       /\ headersTree' = r.g.tree
       /\ headersTreeLeafHashes' = r.g.leaves
       /\ sortedHeaders' = r.g.sorted
       /\ sortedHeadersIndex' = r.g.index
       /\ changes' = r.changes
       /\ exited' = ~r.ok
    /\ lastOp' = op
    /\ batch' = headers
    /\ before' = Graph
    /\ UNCHANGED numPruned

\* ------------------------------------------------------------------------
\* pruneBranches
\* ------------------------------------------------------------------------

\* A walk that forgets to record the headers it passes (a variant used to
\* show that the properties below depend on the recording).
RECURSIVE WalkStaleBranchLeafOnly(_, _, _, _)
WalkStaleBranchLeafOnly(g, currentHashHex, prevHashHex, stale) ==
    IF prevHashHex \notin DOMAIN g.index
    THEN WalkStaleBranchLeafOnly(g, prevHashHex, Prev[prevHashHex], stale)
    ELSE [divergenceHeaderHash       |-> currentHashHex,
          divergenceParentHeaderHash |-> prevHashHex,
          stale                      |-> stale]

\* The while loop run for one stale leaf: walks back until prevHashHex is on
\* the longest chain, adding the visited hashes to staleHeaderHashes.
RECURSIVE WalkStaleBranch(_, _, _, _)
WalkStaleBranch(g, currentHashHex, prevHashHex, stale) ==
    IF prevHashHex \notin DOMAIN g.index
    THEN WalkStaleBranch(g, prevHashHex, Prev[prevHashHex],
                         stale \cup {prevHashHex})
    ELSE [divergenceHeaderHash       |-> currentHashHex,
          divergenceParentHeaderHash |-> prevHashHex,
          stale                      |-> stale]

\* The forEach over the stale leaves (a snapshot array of the leaf set
\* without the tip).  divergence is staleHeaderDivergenceParentHashes as the
\* sequence of its entries in Map insertion order.
RECURSIVE CollectStale(_, _, _, _, _)
CollectStale(g, staleLeaves, i, stale, divergence) ==
    IF i > Len(staleLeaves)
    THEN [stale |-> stale, divergence |-> divergence]
    ELSE LET w == WalkStaleBranch(g, staleLeaves[i], staleLeaves[i], stale)
             entry == <<w.divergenceHeaderHash, w.divergenceParentHeaderHash>>
             known == \E k \in 1 .. Len(divergence) :
                          divergence[k][1] = entry[1]
         IN CollectStale(g, staleLeaves, i + 1, w.stale,
                         IF known
                         THEN [k \in 1 .. Len(divergence) |->
                                 IF divergence[k][1] = entry[1]
                                 THEN entry ELSE divergence[k]]
                         ELSE Append(divergence, entry))

\* The for-of loop that detaches each stale branch from its parent on the
\* longest chain.  Returns the children map and whether every assert held.
RECURSIVE DetachStale(_, _, _, _)
DetachStale(g, tree, divergence, k) ==
    IF k > Len(divergence) THEN [tree |-> tree, ok |-> TRUE]
    ELSE LET divergenceHeaderHash == divergence[k][1]
             divergenceParentHeaderHash == divergence[k][2]
         IN IF /\ assert(divergenceHeaderHash \notin DOMAIN g.index)
               /\ assert(divergenceParentHeaderHash \in DOMAIN g.index)
               /\ assert(divergenceParentHeaderHash \in DOMAIN tree)
               /\ assert(tree[divergenceParentHeaderHash] # {})
            THEN DetachStale(g,
                     [tree EXCEPT ![divergenceParentHeaderHash] =
                                      @ \ {divergenceHeaderHash}],
                     divergence, k + 1)
            ELSE [tree |-> tree, ok |-> FALSE]

\* The value pruneBranches returns.
PruneResult(numBranchesBefore, numBranchesAfter) ==
    numBranchesBefore - numBranchesAfter

\* pruneBranches: returns the new graph, the number returned, and whether
\* every assert held.  A failed assert ends the process (process.exit(1)):
\* nothing of the in-memory graph can be observed afterwards, so the graph is
\* left as it was before the call.
prune(g) ==
    LET numBranchesBefore == Len(g.leaves)
        tip == getHeaderTip(g)
        staleLeaves == SetDelete(g.leaves, tip)
        c == CollectStale(g, staleLeaves, 1, Range(staleLeaves), <<>>)
        d == DetachStale(g, g.tree, c.divergence, 1)
        g1 == [g EXCEPT
                 !.all = MapDeleteAll(g.all, c.stale),
                 !.tree = MapDeleteAll(d.tree, c.stale),
                 !.leaves = SelectSeq(g.leaves, LAMBDA h : h \notin c.stale)]
        ok == /\ d.ok
              /\ \A h \in c.stale : assert(h \notin DOMAIN g.index)
              /\ assert(tip \in Range(g1.leaves))
              /\ assert(Len(g1.leaves) = 1)
    IN IF ok
       THEN [g |-> g1, ok |-> TRUE,
             pruned |-> PruneResult(numBranchesBefore, Len(g1.leaves))]
       ELSE [g |-> g, ok |-> FALSE, pruned |-> 0]

pruneBranches(op) ==
    /\ ~exited
    /\ LET r == prune(Graph) IN
       /\ allHeaders' = r.g.all
       /\ headersTree' = r.g.tree
       /\ headersTreeLeafHashes' = r.g.leaves
       /\ sortedHeaders' = r.g.sorted
       /\ sortedHeadersIndex' = r.g.index
       /\ numPruned' = IF r.ok THEN r.pruned ELSE numPruned
       /\ exited' = ~r.ok
    /\ lastOp' = op
    /\ before' = Graph
    /\ UNCHANGED <<batch, changes>>

\* ------------------------------------------------------------------------
\* Calls.  Both operations are synchronous: the caller makes a call, holds
\* its result, and goes on.
\* ------------------------------------------------------------------------

\* A caller hands a batch of parsed headers to addHeaders.
AddHeaders ==
    /\ lastOp = "idle"
    /\ \E headers \in Batches : addHeaders(headers, "addHeaders")
    /\ UNCHANGED notGraphVars

\* The same batch is handed to addHeaders again, straight after.
AddHeadersAgain ==
    /\ lastOp = "addHeaders"
    /\ addHeaders(batch, "addHeadersAgain")
    /\ UNCHANGED notGraphVars

PruneBranches ==
    /\ lastOp = "idle"
    /\ pruneBranches("pruneBranches")
    /\ UNCHANGED notGraphVars

\* pruneBranches is called again, straight after.
PruneBranchesAgain ==
    /\ lastOp = "pruneBranches"
    /\ pruneBranches("pruneBranchesAgain")
    /\ UNCHANGED notGraphVars

\* The caller is done with the result of the last call.
Return ==
    /\ ~exited
    /\ lastOp # "idle"
    /\ lastOp' = "idle"
    /\ batch' = <<>>
    /\ changes' = EmptyChanges
    /\ numPruned' = 0
    /\ before' = Graph
    /\ UNCHANGED <<graphVars, exited, notGraphVars>>

\* ------------------------------------------------------------------------
\* Specification: any sequence of addHeaders and pruneBranches calls.
\* ------------------------------------------------------------------------
Next ==
    \/ AddHeaders
    \/ AddHeadersAgain
    \/ PruneBranches
    \/ PruneBranchesAgain
    \/ Return

Spec == Init /\ [][Next]_vars

\* ========================================================================
\* Properties of the header graph
\* ========================================================================

tipHash == Last(sortedHeaders)

leafSet == Range(headersTreeLeafHashes)

workTotalOf(h) == allHeaders[h].workTotal

\* The tip, and its workTotal, when the last call was made.
tipBefore == Last(before.sorted)

tipWorkBefore == before.all[tipBefore].workTotal

\* addHeaders has returned and the caller holds its changeset.
AddReturned == lastOp \in {"addHeaders", "addHeadersAgain"} /\ ~exited

removed == changes.headersRemovedFromLongestChain

added == changes.headersAddedToLongestChain

invalidated == changes.headersInvalidated

\* The headers from genesis to h, following prevHashHex.
RECURSIVE PathFromGenesis(_)
PathFromGenesis(h) ==
    IF h = GENESIS THEN <<GENESIS>>
    ELSE Append(PathFromGenesis(Prev[h]), h)

\* The length of the longest common prefix of two sequences.
CommonPrefixLen(s, t) ==
    LET m == IF Len(s) < Len(t) THEN Len(s) ELSE Len(t)
    IN CHOOSE k \in 0 .. m :
          /\ \A i \in 1 .. k : s[i] = t[i]
          /\ (k = m \/ s[k + 1] # t[k + 1])

NoDuplicates(s) == \A i, j \in 1 .. Len(s) : i # j => s[i] # s[j]

\* The batch as the scan sees it: without the headers that were known, when
\* the longest chain held more than genesis.
scanned ==
    IF Len(before.sorted) > 1
    THEN SelectSeq(batch, LAMBDA h : h \notin DOMAIN before.all)
    ELSE batch

\* The headers in the graph when the scan reaches position k, given that all
\* the headers before k were linked.
knownAt(k) == (DOMAIN before.all) \cup {scanned[j] : j \in 1 .. k - 1}

\* Every header before position k was linked: its parent was in the graph
\* and it is not an invalid block.
linkedBefore(k) ==
    \A i \in 1 .. k - 1 :
        /\ Prev[scanned[i]] \in knownAt(i)
        /\ scanned[i] \notin invalidBlocks

\* The scan reaches position k and finds the header's parent missing.
brokenAt(k) ==
    /\ k \in 1 .. Len(scanned)
    /\ linkedBefore(k)
    /\ Prev[scanned[k]] \notin knownAt(k)

\* The scan reaches position k and finds an invalid block there.
invalidAt(k) ==
    /\ k \in 1 .. Len(scanned)
    /\ linkedBefore(k)
    /\ Prev[scanned[k]] \in knownAt(k)
    /\ scanned[k] \in invalidBlocks

\* ------------------------------------------------------------------------
\* C1: after any sequence of addHeaders and pruneBranches calls no leaf has
\* more workTotal than the tip, and the tip's workTotal is the maximum of the
\* leaves' workTotal.
C1_TipIsHeaviestLeaf ==
    /\ \A l \in leafSet : workTotalOf(l) <= workTotalOf(tipHash)
    /\ \E l \in leafSet : workTotalOf(l) = workTotalOf(tipHash)

\* A re-org has just left a lighter leaf behind.
C1_Witness ==
    /\ AddReturned
    /\ removed # <<>>
    /\ \E l \in leafSet : workTotalOf(l) < workTotalOf(tipHash)

\* ------------------------------------------------------------------------
\* C2: addHeaders re-orgs exactly when some leaf has strictly more workTotal
\* than the tip had; then removed is the old longest chain above the common
\* ancestor, added is the new branch from the height after the common
\* ancestor up to the new tip in ascending height, and the longest chain is
\* the old chain up to the common ancestor followed by added.
C2_ReorgChangeset ==
    AddReturned =>
        LET reorg == tipHash # tipBefore
            newChain == PathFromGenesis(tipHash)
            common == CommonPrefixLen(before.sorted, newChain)
        IN /\ reorg <=> \E l \in leafSet : workTotalOf(l) > tipWorkBefore
           /\ reorg =>
                /\ workTotalOf(tipHash) > tipWorkBefore
                /\ removed = SubSeq(before.sorted, common + 1,
                                    Len(before.sorted))
                /\ added = SubSeq(newChain, common + 1, Len(newChain))
                /\ sortedHeaders = SubSeq(before.sorted, 1, common) \o added
           /\ ~reorg => removed = <<>> /\ added = <<>>

\* A re-org that takes two headers off the longest chain and puts three on.
C2_Witness ==
    /\ AddReturned
    /\ Len(removed) >= 2
    /\ Len(added) >= 3

\* ------------------------------------------------------------------------
\* C3: when no leaf has strictly more workTotal than the tip had, addHeaders
\* leaves the tip and the longest chain as they were and reports nothing
\* added or removed.
C3_TieKeepsTip ==
    (AddReturned /\ \A l \in leafSet : workTotalOf(l) <= tipWorkBefore) =>
        /\ sortedHeaders = before.sorted
        /\ sortedHeadersIndex = before.index
        /\ removed = <<>>
        /\ added = <<>>

\* The call has linked a leaf on another branch whose workTotal is the tip's.
C3_Witness ==
    /\ AddReturned
    /\ \E l \in leafSet \ DOMAIN before.all :
          /\ workTotalOf(l) = workTotalOf(tipHash)
          /\ l \notin Range(PathFromGenesis(tipHash))
          /\ tipHash \notin Range(PathFromGenesis(l))

\* ------------------------------------------------------------------------
\* C4 as claimed: when addHeaders reports invalidated headers, the tip is the
\* tip it was before the call.
C4_AsClaimed ==
    (AddReturned /\ invalidated # <<>>) =>
        /\ \A j \in 1 .. Len(invalidated) :
              invalidated[j] \notin DOMAIN allHeaders
        /\ tipHash = tipBefore

\* C4 as amended: an invalid block is never in the graph.  When the scan
\* reaches one, addHeaders reports it followed by the headers of the batch
\* that directly follow it for as long as each chains onto the one before,
\* links nothing from that position on, and the tip is the old tip or a
\* header linked earlier in the same batch, in which case it has strictly
\* more workTotal than the old tip.  Nothing is reported otherwise.
C4_InvalidNeverEnters ==
    /\ \A h \in invalidBlocks : h \notin DOMAIN allHeaders
    /\ AddReturned =>
         /\ \A k \in 1 .. Len(scanned) : invalidAt(k) =>
              LET n == Len(invalidated) IN
              /\ n >= 1
              /\ k + n - 1 <= Len(scanned)
              /\ \A j \in 1 .. n : invalidated[j] = scanned[k + j - 1]
              /\ \A j \in 2 .. n : Prev[invalidated[j]] = invalidated[j - 1]
              /\ k + n <= Len(scanned) =>
                     Prev[scanned[k + n]] # invalidated[n]
              /\ DOMAIN allHeaders = knownAt(k)
              /\ tipHash \in {tipBefore} \cup {scanned[j] : j \in 1 .. k - 1}
              /\ tipHash # tipBefore => workTotalOf(tipHash) > tipWorkBefore
         /\ invalidated # <<>> => \E k \in 1 .. Len(scanned) : invalidAt(k)

\* A header of the batch became the tip, and the invalid block after it was
\* reported together with its child.
C4_Witness ==
    /\ AddReturned
    /\ Len(invalidated) >= 2
    /\ tipHash # tipBefore

\* ------------------------------------------------------------------------
\* C5 as claimed: every header of the batch whose parent is an invalid block
\* is kept out of the graph and is reported as invalidated.
C5_AsClaimed ==
    AddReturned =>
        \A i \in 1 .. Len(batch) :
            Prev[batch[i]] \in invalidBlocks =>
                /\ batch[i] \notin DOMAIN allHeaders
                /\ batch[i] \in Range(invalidated)

\* C5 as amended: a header whose parent is an invalid block is never in the
\* graph.  It is reported as invalidated only when it directly follows its
\* parent in the reported list: the list starts with an invalid block, every
\* later entry chains onto the entry before it, and a batch that holds no
\* invalid block reports nothing.
C5_ChildOfInvalidRejected ==
    /\ \A h \in DOMAIN allHeaders : Prev[h] \notin invalidBlocks
    /\ AddReturned =>
         /\ invalidated # <<>> => invalidated[1] \in invalidBlocks
         /\ \A j \in 2 .. Len(invalidated) :
                Prev[invalidated[j]] = invalidated[j - 1]
         /\ (\A i \in 1 .. Len(batch) : batch[i] \notin invalidBlocks) =>
                invalidated = <<>>

\* A batch that starts with the child of an invalid block, whose parent is
\* linkable, came back with nothing invalidated.
C5_Witness ==
    /\ AddReturned
    /\ Len(batch) >= 1
    /\ Prev[batch[1]] \in invalidBlocks
    /\ Prev[Prev[batch[1]]] \in DOMAIN before.all
    /\ invalidated = <<>>

\* ------------------------------------------------------------------------
\* C6: when the scan reaches a header whose parent is not in the graph, the
\* headers linked before it are in the graph, nothing from that position on
\* is linked, and nothing is reported invalidated; when it is the first
\* header scanned, the graph is unchanged and the changeset is empty.
C6_BrokenChainStops ==
    AddReturned =>
        \A k \in 1 .. Len(scanned) : brokenAt(k) =>
            /\ DOMAIN allHeaders = knownAt(k)
            /\ invalidated = <<>>
            /\ k = 1 => Graph = before /\ changes = EmptyChanges

\* A header was linked, the next one had no parent, and the one after that
\* had its parent in the graph and was dropped all the same.
C6_Witness ==
    /\ AddReturned
    /\ \E k \in 2 .. Len(scanned) - 1 :
          /\ brokenAt(k)
          /\ Prev[scanned[k + 1]] \in DOMAIN allHeaders
          /\ scanned[k + 1] \notin DOMAIN allHeaders

\* ------------------------------------------------------------------------
\* C7 as claimed: handing addHeaders the batch it was just given changes
\* nothing: the graph, the tip and the longest chain are as they were, and
\* nothing is reported added or removed.  A header that is in a batch twice is put on
\* the longest chain once.
C7_SameBatchAgainIsNoOp ==
    /\ lastOp = "addHeadersAgain" =>
         /\ ~exited
         /\ Graph = before
         /\ removed = <<>>
         /\ added = <<>>
    /\ AddReturned => NoDuplicates(added) /\ NoDuplicates(sortedHeaders)

\* ------------------------------------------------------------------------
\* C8: every header of the graph but genesis has its parent in the graph,
\* and its workTotal is its parent's workTotal plus its own work.
C8_WorkTotalAccumulates ==
    \A h \in (DOMAIN allHeaders) \ {GENESIS} :
        /\ Prev[h] \in DOMAIN allHeaders
        /\ workTotalOf(h) = workTotalOf(Prev[h]) + Work[h]

\* A batch with an invalid block was handed to a graph that has been
\* re-organised: a branch of two headers is off the longest chain.
C8_Witness ==
    /\ AddReturned
    /\ invalidated # <<>>
    /\ \E h \in DOMAIN allHeaders :
          /\ h \notin Range(sortedHeaders)
          /\ Prev[h] \notin Range(sortedHeaders)

\* ------------------------------------------------------------------------
\* C9: the longest chain is indexed by height: it starts with genesis, the
\* header at position i (from 0) is in the graph with height i and is
\* indexed at i, each header's prevHashHex is the hash of the header before
\* it, and the index holds the headers of the chain and no others.
C9_LongestChainIsHeightIndexed ==
    /\ Len(sortedHeaders) >= 1
    /\ sortedHeaders[1] = GENESIS
    /\ DOMAIN sortedHeadersIndex = Range(sortedHeaders)
    /\ \A i \in 1 .. Len(sortedHeaders) :
          /\ sortedHeaders[i] \in DOMAIN allHeaders
          /\ allHeaders[sortedHeaders[i]].height = i - 1
          /\ sortedHeadersIndex[sortedHeaders[i]] = i - 1
          /\ i > 1 => Prev[sortedHeaders[i]] = sortedHeaders[i - 1]

\* pruneBranches has removed a branch from under a chain of three headers
\* or more.
C9_Witness ==
    /\ lastOp = "pruneBranches"
    /\ ~exited
    /\ numPruned >= 1
    /\ Len(sortedHeaders) >= 3

\* ------------------------------------------------------------------------
\* C10: when pruneBranches returns, the tip is the only leaf; a second call
\* straight after returns 0 and leaves the graph as it was.
C10_PruneLeavesOnlyTip ==
    /\ (lastOp = "pruneBranches" /\ ~exited) =>
         headersTreeLeafHashes = <<tipHash>>
    /\ lastOp = "pruneBranchesAgain" =>
         /\ ~exited
         /\ numPruned = 0
         /\ Graph = before
         /\ headersTreeLeafHashes = <<tipHash>>

\* pruneBranches was called again on a graph of three headers or more.
C10_Witness ==
    /\ lastOp = "pruneBranchesAgain"
    /\ Cardinality(DOMAIN allHeaders) >= 3

\* ------------------------------------------------------------------------
\* C11: pruneBranches, when it returns, leaves the longest chain (and so the
\* tip) and every header on it as they were, and the headers that stay
\* retrievable by hash are exactly those on the longest chain; addHeaders
\* never makes a header unretrievable, so a stale branch stays until prune.
C11_PruneKeepsLongestChain ==
    /\ (lastOp \in {"pruneBranches", "pruneBranchesAgain"} /\ ~exited) =>
         /\ sortedHeaders = before.sorted
         /\ sortedHeadersIndex = before.index
         /\ tipHash = tipBefore
         /\ DOMAIN allHeaders = Range(before.sorted)
         /\ \A h \in Range(before.sorted) : allHeaders[h] = before.all[h]
         /\ (DOMAIN before.all) \ (DOMAIN allHeaders)
              = (DOMAIN before.all) \ Range(before.sorted)
    /\ AddReturned =>
         \A h \in DOMAIN before.all :
             h \in DOMAIN allHeaders /\ allHeaders[h] = before.all[h]

\* pruneBranches returned after removing a stale branch two headers long.
C11_Witness ==
    /\ lastOp = "pruneBranches"
    /\ ~exited
    /\ \E h \in (DOMAIN before.all) \ (DOMAIN allHeaders) :
           /\ Prev[h] \in (DOMAIN before.all) \ (DOMAIN allHeaders)
           /\ h \in Range(before.leaves)
    /\ Len(sortedHeaders) >= 3

\* ========================================================================
\* Part 2: getBlockLocatorHashBuffers
\* ========================================================================

\* Everything that is not state of Part 2.
notLocatorVars == <<graphVars, callVars, exited, sessionVars, clientVars,
                   nodesVars, frameVars,
                    poolEventVars,
                    workerVars,
                    saveVars,
                    syncPoolVars,
                    loopVars,
                    keepaliveVars,
                    transportVars,
                    headerVars>>

\* The longest chain is modelled up to this many headers, genesis included.
MaxChainLen == 45

\* The number of hashes pushed before the step starts to double.
LOCATOR_DENSE_COUNT == 10

\* The hash of the header at a height on one of two competing branches
\* (0 or 1); both branches start from the genesis header.
LocatorHash(height, branch) ==
    IF height = 0 THEN GENESIS ELSE 2 * height + branch

\* The branch a hash of LocatorHash is on.
LocatorBranch(hash) == hash % 2

\* A step that is never doubled (a variant used to show that the property
\* below depends on the doubling).
LocatorStepKept(length, step) == step

\* The step after the check at the top of the loop body: doubled once ten
\* hashes have been pushed.
LocatorStep(length, step) ==
    IF length >= LOCATOR_DENSE_COUNT THEN step * 2 ELSE step

\* The for loop of getBlockLocatorHashBuffers; i is the 0-based index into
\* _sortedHeaders, as in the code.
RECURSIVE LocatorLoop(_, _, _, _)
LocatorLoop(sorted, i, step, hashes) ==
    IF i > 0
    THEN LET step2 == LocatorStep(Len(hashes), step)
         IN LocatorLoop(sorted, i - step2, step2, Append(hashes, sorted[i + 1]))
    ELSE hashes

\* getBlockLocatorHashBuffers: the loop, then the genesis hash.
getBlockLocatorHashBuffers(sorted) ==
    Append(LocatorLoop(sorted, Len(sorted) - 1, 1, <<>>), sorted[1])

\* _insert extends the longest chain by one header on the tip's branch.
LocatorExtendTip ==
    /\ locatorOp = "idle"
    /\ Len(locatorSortedHeaders) < MaxChainLen
    /\ \E branch \in {0, 1} :
          /\ Len(locatorSortedHeaders) > 1 =>
                branch = LocatorBranch(Last(locatorSortedHeaders))
          /\ locatorSortedHeaders' =
                Append(locatorSortedHeaders,
                       LocatorHash(Len(locatorSortedHeaders), branch))
    /\ UNCHANGED <<locatorHashes, locatorOp>>

\* _insert re-organises the longest chain: the headers from newStartingHeight
\* up are spliced off and the first header of the other branch is pushed.
LocatorReorg ==
    /\ locatorOp = "idle"
    /\ \A k \in 2 .. Len(locatorSortedHeaders) :
          LocatorBranch(locatorSortedHeaders[k]) = 0
    /\ \E newStartingHeight \in 1 .. Len(locatorSortedHeaders) - 1 :
          locatorSortedHeaders' =
             Append(SubSeq(locatorSortedHeaders, 1, newStartingHeight),
                    LocatorHash(newStartingHeight, 1))
    /\ UNCHANGED <<locatorHashes, locatorOp>>

\* A caller asks for the block locator.
GetBlockLocatorHashBuffers ==
    /\ locatorOp = "idle"
    /\ locatorHashes' = getBlockLocatorHashBuffers(locatorSortedHeaders)
    /\ locatorOp' = "getBlockLocatorHashBuffers"
    /\ UNCHANGED locatorSortedHeaders

\* The caller is done with the locator.
LocatorReturn ==
    /\ locatorOp # "idle"
    /\ locatorHashes' = <<>>
    /\ locatorOp' = "idle"
    /\ UNCHANGED locatorSortedHeaders

LocatorNext ==
    \/ LocatorExtendTip /\ UNCHANGED notLocatorVars
    \/ LocatorReorg /\ UNCHANGED notLocatorVars
    \/ GetBlockLocatorHashBuffers /\ UNCHANGED notLocatorVars
    \/ LocatorReturn /\ UNCHANGED notLocatorVars

LocatorSpec == Init /\ [][LocatorNext]_vars

\* ------------------------------------------------------------------------
\* Properties of the block locator
\* ------------------------------------------------------------------------

\* The height of the longest chain's tip.
locatorTipHeight == Len(locatorSortedHeaders) - 1

\* The height at which a hash sits on the longest chain.
locatorHeightOf(hash) ==
    CHOOSE h \in 0 .. locatorTipHeight : locatorSortedHeaders[h + 1] = hash

\* The height of the k-th entry of the locator.
locatorHeightAt(k) == locatorHeightOf(locatorHashes[k])

RECURSIVE Pow2(_)
Pow2(n) == IF n = 0 THEN 1 ELSE 2 * Pow2(n - 1)

LocatorReturned == locatorOp = "getBlockLocatorHashBuffers"

\* ------------------------------------------------------------------------
\* C12: the block locator lists the hashes at heights tip, tip-1, ..., tip-9
\* as far as they exist above genesis, then hashes whose distance from the
\* entry before them is 1, 2, 4, 8, ... (doubling at each entry) as long as
\* that stays above genesis, and ends with the genesis hash, which appears
\* exactly once.
C12_BlockLocatorShape ==
    LocatorReturned =>
      LET n == Len(locatorHashes) IN
      /\ n >= 1
      /\ locatorHashes[n] = locatorSortedHeaders[1]
      /\ \A k \in 1 .. n - 1 : locatorHashes[k] # locatorSortedHeaders[1]
      /\ \A k \in 1 .. n - 1 : locatorHashes[k] \in Range(locatorSortedHeaders)
      /\ \A k \in 1 .. LOCATOR_DENSE_COUNT :
            k - 1 < locatorTipHeight =>
               /\ k < n
               /\ locatorHeightAt(k) = locatorTipHeight - (k - 1)
      /\ \A k \in LOCATOR_DENSE_COUNT + 1 .. n - 1 :
            locatorHeightAt(k - 1) - locatorHeightAt(k)
               = Pow2(k - LOCATOR_DENSE_COUNT - 1)
      /\ n > 1 =>
            locatorHeightAt(n - 1) <=
               (IF n - 1 < LOCATOR_DENSE_COUNT THEN 1
                ELSE Pow2(n - LOCATOR_DENSE_COUNT - 1))

\* A locator of a re-organised chain long enough for distances 1, 2, 4, 8
\* and 16 after the ten dense entries.
C12_Witness ==
    /\ LocatorReturned
    /\ Len(locatorHashes) >= LOCATOR_DENSE_COUNT + 6
    /\ LocatorBranch(Last(locatorSortedHeaders)) = 1

\* ========================================================================
\* Part 3: LegacyNodeConnection
\* ========================================================================

\* The callers of one session hold this many cancellation tokens.
MaxTokens == 2

\* Ping nonces are drawn from this many values; a ping never draws a nonce
\* that is pending (crypto.randomBytes(8)).
MaxNonces == 2

\* The signal argument left out.
NO_SIGNAL == 0

Tokens == 1 .. MaxTokens

Signals == {NO_SIGNAL} \cup Tokens

Nonces == 1 .. MaxNonces

\* A waiter settled by a handler: the request, its nonce (0 unless it is a
\* ping) and "resolved" or the error it was rejected with.
Settled(kind, nonce, outcome) ==
    [kind |-> kind, nonce |-> nonce, outcome |-> outcome]

\* What a handler did: the session it leaves, the events it emitted, the
\* waiters it settled and what it returned or threw.
Outcome(s, events, waiters, result) ==
    [s |-> s, emitted |-> events, settled |-> waiters, result |-> result]

\* connected()
connected(s) == s.socket /\ s.pendingConnect = {}

\* _disconnectNoEmit that forgets the getHeaders slot (a variant used to
\* show that the properties below depend on flushing every correlator).
disconnectNoEmitKeepsGetHeaders(s) ==
    IF ~s.socket /\ s.pendingConnect = {}
    THEN [s |-> s, settled |-> {}]
    ELSE [s |-> [s EXCEPT !.socket = FALSE,
                          !.pingIntervalId = FALSE,
                          !.verackSent = FALSE,
                          !.wasConnected = FALSE,
                          !.pendingConnect = {},
                          !.pendingPongs = {},
                          !.pendingGetAddr = {}],
          settled |->
             {Settled("connect", 0, "closed") : e \in s.pendingConnect}
             \cup {Settled("ping", e.nonce, "closed") : e \in s.pendingPongs}
             \cup {Settled("getAddr", 0, "closed") : e \in s.pendingGetAddr}]

\* _disconnectNoEmit: removes the socket's listeners and destroys it, clears
\* the ping interval and the flags, and rejects every pending waiter.
disconnectNoEmit(s) ==
    IF ~s.socket /\ s.pendingConnect = {}
    THEN [s |-> s, settled |-> {}]
    ELSE [s |-> [s EXCEPT !.socket = FALSE,
                          !.pingIntervalId = FALSE,
                          !.verackSent = FALSE,
                          !.wasConnected = FALSE,
                          !.pendingConnect = {},
                          !.pendingPongs = {},
                          !.pendingGetHeaders = {},
                          !.pendingGetAddr = {}],
          settled |->
             {Settled("connect", 0, "closed") : e \in s.pendingConnect}
             \cup {Settled("ping", e.nonce, "closed") : e \in s.pendingPongs}
             \cup {Settled("getHeaders", 0, "closed") :
                      e \in s.pendingGetHeaders}
             \cup {Settled("getAddr", 0, "closed") : e \in s.pendingGetAddr}]

\* disconnect()
disconnect(s) ==
    LET d == disconnectNoEmit(s)
    IN Outcome(d.s, <<"disconnect">>, d.settled, "returned")

\* The event the socket's error and close listeners would emit if they
\* never looked at _wasConnected (two variants used to show that the
\* properties below depend on it).
UnintentionalEventAlwaysAfter(w) == "disconnect_unintentional_after_connect"

UnintentionalEventAlwaysBefore(w) == "disconnect_unintentional_before_connect"

\* The event the socket's error and close listeners emit.
UnintentionalEvent(w) ==
    IF w THEN "disconnect_unintentional_after_connect"
    ELSE "disconnect_unintentional_before_connect"

\* The socket's 'error' and 'close' listeners (the same code twice).
socketErrorOrClose(s) ==
    LET w == s.wasConnected
        d == disconnectNoEmit(s)
    IN Outcome(d.s, <<UnintentionalEvent(w)>>, d.settled, "none")

\* connect({ signal })
connect(s, abortedTokens, signal) ==
    IF s.socket /\ s.pendingConnect = {}
    THEN Outcome(s, <<>>, {}, "returned")
    ELSE IF signal \in abortedTokens
    THEN Outcome(s, <<>>, {}, "threw Aborted")
    ELSE IF s.pendingConnect # {}
    THEN Outcome(s, <<>>, {}, "existing promise")
    ELSE Outcome([s EXCEPT !.wasConnected = FALSE,
                           !.pendingConnect = {[nonce |-> 0,
                                                signal |-> signal]},
                           !.socket = TRUE],
                 <<>>, {}, "new promise")

\* The timer connect() sets, firing.
connectTimeout(s) ==
    IF s.pendingConnect # {}
    THEN LET d == disconnectNoEmit([s EXCEPT !.pendingConnect = {}])
         IN Outcome(d.s, <<"disconnect_unintentional_before_connect">>,
                    d.settled \cup {Settled("connect", 0, "timed out")},
                    "none")
    ELSE Outcome(s, <<>>, {}, "none")

\* _handleMessage({ command, payload }): the if-else chain over the command.
\* nonce is the payload of a pong; parses tells whether the payload of a
\* headers or addr message parses.  A ping is answered through _sendMessage,
\* which throws while the handshake is pending; nothing catches that in the
\* socket's 'data' listener.
handleMessage(s, command, nonce, parses) ==
    IF command = "version" /\ ~s.verackSent /\ s.pendingConnect # {}
    THEN Outcome([s EXCEPT !.verackSent = TRUE], <<>>, {}, "none")
    ELSE IF command = "verack" /\ s.verackSent /\ s.pendingConnect # {}
    THEN Outcome([s EXCEPT !.pingIntervalId = TRUE,
                           !.pendingConnect = {},
                           !.wasConnected = TRUE],
                 <<"connect">>, {Settled("connect", 0, "resolved")}, "none")
    ELSE IF command = "pong" /\ s.pendingPongs # {}
    THEN IF \E e \in s.pendingPongs : e.nonce = nonce
         THEN Outcome([s EXCEPT !.pendingPongs =
                                   {e \in @ : e.nonce # nonce}],
                      <<"pong">>, {Settled("ping", nonce, "resolved")},
                      "none")
         ELSE Outcome(s, <<>>, {}, "none")
    ELSE IF command = "headers" /\ s.pendingGetHeaders # {}
    THEN Outcome([s EXCEPT !.pendingGetHeaders = {}], <<>>,
                 {Settled("getHeaders", 0,
                          IF parses THEN "resolved" ELSE "parse error")},
                 "none")
    ELSE IF command = "addr"
    THEN IF s.pendingGetAddr # {}
         THEN Outcome([s EXCEPT !.pendingGetAddr = {}], <<>>,
                      {Settled("getAddr", 0,
                               IF parses THEN "resolved"
                               ELSE "parse error")},
                      "none")
         ELSE Outcome(s, IF parses THEN <<"addr">> ELSE <<>>, {}, "none")
    ELSE IF command = "ping"
    THEN IF s.pendingConnect # {}
         THEN Outcome(s, <<>>, {}, "uncaught Connection is pending")
         ELSE Outcome(s, <<>>, {}, "none")
    ELSE Outcome(s, <<>>, {}, "none")

\* The 'data' listener for a message that parseMessages reports as an error
\* (checksum mismatch): the waiter of that command is rejected and nothing
\* else is touched.
handleParseError(s, command) ==
    IF s.pendingConnect # {} /\ command \in {"version", "verack"}
    THEN Outcome([s EXCEPT !.pendingConnect = {}], <<>>,
                 {Settled("connect", 0, "parse error")}, "none")
    ELSE IF s.pendingPongs # {} /\ command = "pong"
    THEN Outcome(s, <<>>, {}, "none")
    ELSE IF s.pendingGetHeaders # {} /\ command = "headers"
    THEN Outcome([s EXCEPT !.pendingGetHeaders = {}], <<>>,
                 {Settled("getHeaders", 0, "parse error")}, "none")
    ELSE IF s.pendingGetAddr # {} /\ command = "addr"
    THEN Outcome([s EXCEPT !.pendingGetAddr = {}], <<>>,
                 {Settled("getAddr", 0, "parse error")}, "none")
    ELSE Outcome(s, <<>>, {}, "none")

\* ping({ signal }); nonce is the value crypto.randomBytes(8) gave.
ping(s, abortedTokens, signal, nonce) ==
    IF ~connected(s)
    THEN Outcome(s, <<>>, {}, "threw Not connected")
    ELSE IF signal \in abortedTokens
    THEN Outcome(s, <<>>, {}, "threw Aborted")
    ELSE Outcome([s EXCEPT !.pendingPongs =
                              @ \cup {[nonce |-> nonce, signal |-> signal]}],
                 <<>>, {}, "new promise")

\* A ping timer that only rejects its own waiter (a variant used to show
\* that the property below depends on the disconnect).
pingTimeoutRejectsOnly(s, nonce) ==
    Outcome([s EXCEPT !.pendingPongs = {e \in @ : e.nonce # nonce}],
            <<>>, {Settled("ping", nonce, "timed out")}, "none")

\* The timer ping() sets for a nonce, firing.
pingTimeout(s, nonce) ==
    LET d == disconnectNoEmit(
                [s EXCEPT !.pendingPongs = {e \in @ : e.nonce # nonce}])
    IN Outcome(d.s, <<"disconnect_unintentional_after_connect">>,
               d.settled \cup {Settled("ping", nonce, "timed out")}, "none")

\* A getHeaders that takes the slot over from a pending request (a variant
\* used to show that the property below depends on the slot check).
getHeadersTakesSlot(s, abortedTokens, signal, owner) ==
    IF ~connected(s)
    THEN Outcome(s, <<>>, {}, "threw Not connected")
    ELSE IF signal \in abortedTokens
    THEN Outcome(s, <<>>, {}, "threw Aborted")
    ELSE Outcome([s EXCEPT !.pendingGetHeaders =
                              {[nonce |-> 0, signal |-> signal,
                                owner |-> owner]}],
                 <<>>, {}, "new promise")

\* getHeaders({ from, signal }) with a well-formed locator; owner names who
\* awaits the promise ("caller" or "sync").
getHeaders(s, abortedTokens, signal, owner) ==
    IF s.pendingGetHeaders # {}
    THEN Outcome(s, <<>>, {}, "threw Another getHeaders request is pending")
    ELSE IF ~connected(s)
    THEN Outcome(s, <<>>, {}, "threw Not connected")
    ELSE IF signal \in abortedTokens
    THEN Outcome(s, <<>>, {}, "threw Aborted")
    ELSE Outcome([s EXCEPT !.pendingGetHeaders =
                              {[nonce |-> 0, signal |-> signal,
                                owner |-> owner]}],
                 <<>>, {}, "new promise")

\* The timer getHeaders() sets, firing.
getHeadersTimeout(s) ==
    LET d == disconnectNoEmit([s EXCEPT !.pendingGetHeaders = {}])
    IN Outcome(d.s, <<"disconnect_unintentional_after_connect">>,
               d.settled \cup {Settled("getHeaders", 0, "timed out")},
               "none")

\* getAddr({ signal })
getAddr(s, abortedTokens, signal) ==
    IF ~connected(s)
    THEN Outcome(s, <<>>, {}, "threw Not connected")
    ELSE IF signal \in abortedTokens
    THEN Outcome(s, <<>>, {}, "threw Aborted")
    ELSE IF s.pendingGetAddr # {}
    THEN Outcome(s, <<>>, {}, "existing promise")
    ELSE Outcome([s EXCEPT !.pendingGetAddr =
                              {[nonce |-> 0, signal |-> signal]}],
                 <<>>, {}, "new promise")

\* The timer getAddr() sets, firing.
getAddrTimeout(s) ==
    IF s.pendingGetAddr # {}
    THEN LET d == disconnectNoEmit([s EXCEPT !.pendingGetAddr = {}])
         IN Outcome(d.s, <<"disconnect_unintentional_after_connect">>,
                    d.settled \cup {Settled("getAddr", 0, "timed out")},
                    "none")
    ELSE Outcome(s, <<>>, {}, "none")

\* The abort listener connect() registers on its signal.
abortConnectListener(s) == disconnect(s)

\* The abort listener ping() registers on its signal, for its nonce.
abortPingListener(s, nonce) ==
    IF \E e \in s.pendingPongs : e.nonce = nonce
    THEN Outcome([s EXCEPT !.pendingPongs = {e \in @ : e.nonce # nonce}],
                 <<>>, {Settled("ping", nonce, "Aborted")}, "none")
    ELSE Outcome(s, <<>>, {}, "none")

\* An abort listener that drops the connection as connect()'s does (a
\* variant used to show that the property below depends on the listener).
abortGetHeadersListenerDisconnects(s) == disconnect(s)

\* The abort listener getHeaders() registers on its signal.
abortGetHeadersListener(s) ==
    IF s.pendingGetHeaders # {}
    THEN Outcome([s EXCEPT !.pendingGetHeaders = {}],
                 <<>>, {Settled("getHeaders", 0, "Aborted")}, "none")
    ELSE Outcome(s, <<>>, {}, "none")

\* The abort listener getAddr() registers on its signal.
abortGetAddrListener(s) ==
    IF s.pendingGetAddr # {}
    THEN Outcome([s EXCEPT !.pendingGetAddr = {}],
                 <<>>, {Settled("getAddr", 0, "Aborted")}, "none")
    ELSE Outcome(s, <<>>, {}, "none")

\* One handler after another.
Then(o1, o2) ==
    Outcome(o2.s, o1.emitted \o o2.emitted, o1.settled \cup o2.settled,
            o2.result)

\* The ping listeners of a token, one nonce after the other.
RECURSIVE abortPingListeners(_, _, _)
abortPingListeners(o, token, nonce) ==
    IF nonce > MaxNonces THEN o
    ELSE abortPingListeners(
            IF \E e \in o.s.pendingPongs :
                   e.nonce = nonce /\ e.signal = token
            THEN Then(o, abortPingListener(o.s, nonce))
            ELSE o,
            token, nonce + 1)

\* A token is aborted: every listener registered on it and not yet removed
\* runs.  A listener is registered by the call that created the pending
\* entry and removed when that entry's promise settles, so the listeners of
\* a token are the pending entries that carry it.
abortSignal(s, token) ==
    LET o0 == Outcome(s, <<>>, {}, "none")
        o1 == IF \E e \in s.pendingConnect : e.signal = token
              THEN Then(o0, abortConnectListener(s)) ELSE o0
        o2 == abortPingListeners(o1, token, 1)
        o3 == IF \E e \in o2.s.pendingGetHeaders : e.signal = token
              THEN Then(o2, abortGetHeadersListener(o2.s)) ELSE o2
        o4 == IF \E e \in o3.s.pendingGetAddr : e.signal = token
              THEN Then(o3, abortGetAddrListener(o3.s)) ELSE o3
    IN o4

\* ------------------------------------------------------------------------
\* Handlers as steps of the session.  Each handler runs to completion (one
\* turn of the event loop); trigger names it until the observer is done
\* with what it did.
\* ------------------------------------------------------------------------
\* A promise reaction (microtask) of the sync chain is due: it runs before
\* the event loop takes the next socket event or timer.
MicrotaskDue ==
    /\ syncHeadersQueue # <<>>
    /\ Head(syncHeadersQueue).state \in
          {"queued", "resumeResolved", "resumeRejected", "done", "failed"}

\* The sync chain after a handler: the loop awaiting getHeaders is resumed
\* when the handler settled its request.
SyncObserve(queue, o) ==
    IF /\ queue # <<>>
       /\ Head(queue).state = "getHeaders"
       /\ \A e \in o.s.pendingGetHeaders : e.owner # "sync"
    THEN [queue EXCEPT ![1].state =
            IF Settled("getHeaders", 0, "resolved") \in o.settled
            THEN "resumeResolved" ELSE "resumeRejected"]
    ELSE queue

SessionStepCore(name, o, signal, nonce) ==
    /\ trigger = "idle"
    /\ socket' = o.s.socket
    /\ verackSent' = o.s.verackSent
    /\ wasConnected' = o.s.wasConnected
    /\ pingIntervalId' = o.s.pingIntervalId
    /\ pendingConnect' = o.s.pendingConnect
    /\ pendingPongs' = o.s.pendingPongs
    /\ pendingGetHeaders' = o.s.pendingGetHeaders
    /\ pendingGetAddr' = o.s.pendingGetAddr
    /\ trigger' = name
    /\ emitted' = o.emitted
    /\ settled' = o.settled
    /\ callResult' = o.result
    /\ arg' = [signal |-> signal, nonce |-> nonce]
    /\ pre' = [session |-> Session, ready |-> ready,
               syncing |-> syncingHeaders, queue |-> syncHeadersQueue]
    /\ ready' = IF "connect" \in Range(o.emitted) THEN TRUE
                ELSE IF ~o.s.socket THEN FALSE
                ELSE ready
    /\ everReady' = (everReady \/ "connect" \in Range(o.emitted))

\* A handler that is no step of the sync chain.
SessionStep(name, o, signal, nonce) ==
    /\ SessionStepCore(name, o, signal, nonce)
    /\ syncHeadersQueue' = SyncObserve(syncHeadersQueue, o)
    /\ UNCHANGED <<syncingHeaders, syncSettled>>

Connect ==
    \E signal \in Signals :
       /\ SessionStep("connect", connect(Session, aborted, signal), signal, 0)
       /\ UNCHANGED aborted

ConnectTimeout ==
    /\ pendingConnect # {}
    /\ ~MicrotaskDue
    /\ SessionStep("connectTimeout", connectTimeout(Session), 0, 0)
    /\ UNCHANGED aborted

\* The socket emits 'error' or 'close'.
SocketErrorOrClose ==
    /\ socket
    /\ ~MicrotaskDue
    /\ \E event \in {"socketError", "socketClose"} :
          SessionStep(event, socketErrorOrClose(Session), 0, 0)
    /\ UNCHANGED aborted

\* The socket emits 'data' with one well-framed message of the peer.
RecvMessage ==
    /\ socket
    /\ ~MicrotaskDue
    /\ \E command \in {"version", "verack", "pong", "headers", "addr",
                       "ping"} :
       \E nonce \in Nonces :
       \E parses \in BOOLEAN :
          /\ command # "pong" => nonce = 1
          /\ command \notin {"headers", "addr"} => parses
          /\ SessionStep("message " \o command,
                         handleMessage(Session, command, nonce, parses),
                         0, IF command = "pong" THEN nonce ELSE 0)
    /\ UNCHANGED aborted

\* The socket emits 'data' with one message whose checksum is wrong.
RecvParseError ==
    /\ socket
    /\ ~MicrotaskDue
    /\ \E command \in {"version", "verack", "pong", "headers", "addr"} :
          SessionStep("parseError", handleParseError(Session, command), 0, 0)
    /\ UNCHANGED aborted

Ping ==
    /\ \E signal \in Signals :
       \E nonce \in Nonces \ {e.nonce : e \in pendingPongs} :
          SessionStep("ping", ping(Session, aborted, signal, nonce),
                      signal, nonce)
    /\ UNCHANGED aborted

PingTimeout ==
    /\ ~MicrotaskDue
    /\ \E e \in pendingPongs :
          SessionStep("pingTimeout", pingTimeout(Session, e.nonce),
                      0, e.nonce)
    /\ UNCHANGED aborted

GetHeaders ==
    /\ \E signal \in Signals :
          SessionStep("getHeaders",
                      getHeaders(Session, aborted, signal, "caller"),
                      signal, 0)
    /\ UNCHANGED aborted

GetHeadersTimeout ==
    /\ pendingGetHeaders # {}
    /\ ~MicrotaskDue
    /\ SessionStep("getHeadersTimeout", getHeadersTimeout(Session), 0, 0)
    /\ UNCHANGED aborted

GetAddr ==
    /\ \E signal \in Signals :
          SessionStep("getAddr", getAddr(Session, aborted, signal), signal, 0)
    /\ UNCHANGED aborted

GetAddrTimeout ==
    /\ pendingGetAddr # {}
    /\ ~MicrotaskDue
    /\ SessionStep("getAddrTimeout", getAddrTimeout(Session), 0, 0)
    /\ UNCHANGED aborted

\* The abort listener abortableSleepMsThrow registers on the signal of the
\* sync loop: the sleep is rejected.
abortSleep(queue, token) ==
    IF /\ queue # <<>>
       /\ Head(queue).state = "sleep"
       /\ Head(queue).signal = token
    THEN [queue EXCEPT ![1].state = "resumeRejected"]
    ELSE queue

\* The holder of a token aborts it.
AbortToken ==
    \E token \in Tokens \ aborted :
       /\ SessionStepCore("abort", abortSignal(Session, token), token, 0)
       /\ syncHeadersQueue' =
             abortSleep(SyncObserve(syncHeadersQueue,
                                    abortSignal(Session, token)),
                        token)
       /\ UNCHANGED <<syncingHeaders, syncSettled>>
       /\ aborted' = aborted \cup {token}

Disconnect ==
    /\ SessionStep("disconnect", disconnect(Session), 0, 0)
    /\ UNCHANGED aborted

\* The observer is done with what the last handler did.  An exception that
\* nothing catches ends the process: no handler runs after it.
SessionReturn ==
    /\ trigger # "idle"
    /\ callResult # "uncaught Connection is pending"
    /\ trigger' = "idle"
    /\ emitted' = <<>>
    /\ settled' = {}
    /\ callResult' = "none"
    /\ arg' = [signal |-> 0, nonce |-> 0]
    /\ pre' = [session |-> Session, ready |-> ready,
               syncing |-> syncingHeaders, queue |-> syncHeadersQueue]
    /\ UNCHANGED <<connVars, syncVars, aborted, ready, everReady>>

\* Everything that is not state of Part 3.
notSessionVars == <<graphVars, callVars, exited, locatorVars, clientVars,
                   nodesVars, frameVars,
                    poolEventVars,
                    workerVars,
                    saveVars,
                    syncPoolVars,
                    loopVars,
                    keepaliveVars,
                    transportVars,
                    headerVars>>

SessionNext ==
    \/ Connect /\ UNCHANGED notSessionVars
    \/ ConnectTimeout /\ UNCHANGED notSessionVars
    \/ SocketErrorOrClose /\ UNCHANGED notSessionVars
    \/ RecvMessage /\ UNCHANGED notSessionVars
    \/ RecvParseError /\ UNCHANGED notSessionVars
    \/ Ping /\ UNCHANGED notSessionVars
    \/ PingTimeout /\ UNCHANGED notSessionVars
    \/ GetHeaders /\ UNCHANGED notSessionVars
    \/ GetHeadersTimeout /\ UNCHANGED notSessionVars
    \/ GetAddr /\ UNCHANGED notSessionVars
    \/ GetAddrTimeout /\ UNCHANGED notSessionVars
    \/ AbortToken /\ UNCHANGED notSessionVars
    \/ Disconnect /\ UNCHANGED notSessionVars
    \/ SessionReturn /\ UNCHANGED notSessionVars

SessionSpec == Init /\ [][SessionNext]_vars

\* ------------------------------------------------------------------------
\* Properties of the session
\* ------------------------------------------------------------------------

BEFORE_CONNECT == "disconnect_unintentional_before_connect"

AFTER_CONNECT == "disconnect_unintentional_after_connect"

\* The handler that ran last was the transport closing or erroring.
TransportFailed == trigger \in {"socketError", "socketClose"}

\* The handler that ran last was the timer of a ping, getHeaders or getAddr.
RequestTimedOut ==
    trigger \in {"pingTimeout", "getHeadersTimeout", "getAddrTimeout"}

\* The requests pending in a session, as (kind, nonce) pairs.
PendingOf(s) ==
    {<<"connect", e.nonce>> : e \in s.pendingConnect}
    \cup {<<"ping", e.nonce>> : e \in s.pendingPongs}
    \cup {<<"getHeaders", e.nonce>> : e \in s.pendingGetHeaders}
    \cup {<<"getAddr", e.nonce>> : e \in s.pendingGetAddr}

\* ------------------------------------------------------------------------
\* C13: the handshake timer firing, and the transport closing or erroring
\* while the session is not Ready, emit disconnect_unintentional_before_connect
\* and nothing else; the session is never Ready while the handshake timer is
\* armed, also on a reconnect of a session that was Ready before.
C13_BeforeConnectEvent ==
    /\ trigger = "connectTimeout" =>
          /\ ~pre.ready
          /\ emitted = <<BEFORE_CONNECT>>
    /\ (TransportFailed /\ ~pre.ready) => emitted = <<BEFORE_CONNECT>>
    /\ pendingConnect # {} => ~ready

\* The handshake of a reconnect timed out on a session that was Ready
\* earlier, after the peer had sent its version.
C13_Witness ==
    /\ trigger = "connectTimeout"
    /\ everReady
    /\ pre.session.verackSent
    /\ emitted = <<BEFORE_CONNECT>>

\* ------------------------------------------------------------------------
\* C14: the transport closing or erroring, and a request timer firing, while
\* the session is Ready emit disconnect_unintentional_after_connect and
\* nothing else.
C14_AfterConnectEvent ==
    ((TransportFailed \/ RequestTimedOut) /\ pre.ready) =>
        emitted = <<AFTER_CONNECT>>

\* The transport closed on a Ready session with a ping pending.
C14_Witness ==
    /\ trigger = "socketClose"
    /\ pre.ready
    /\ pre.session.pendingPongs # {}
    /\ emitted = <<AFTER_CONNECT>>

\* ------------------------------------------------------------------------
\* Cancellation

\* The pending entries of a session that were created with a token.
CarryingToken(entries, token) == {e \in entries : e.signal = token}

\* The handler that ran last was a token being aborted, and a listener on
\* it cancelled a request.
Cancelled == trigger = "abort" /\ settled # {}

\* C15 as claimed: cancelling any request, the handshake included, rejects
\* its waiter with a cancelled error, leaves the transport open and leaves
\* the other pending requests pending.
C15_AsClaimed ==
    Cancelled =>
       /\ socket = pre.session.socket
       /\ \A w \in settled : w.outcome = "Aborted"
       /\ emitted = <<>>

\* C15 (amended): aborting the token a pending ping, getHeaders or getAddr
\* entry was created with removes exactly the entries carrying that token
\* and rejects their waiters with the cancelled error; the transport, the
\* handshake state and every other pending entry are as before and nothing
\* is emitted.  Aborting the token of a pending connect calls disconnect():
\* the transport is closed, disconnect is emitted and the handshake waiter is
\* rejected with the connection-closed error.
C15_CancelKeepsTransport ==
    trigger = "abort" =>
       LET token == arg.signal
           p == pre.session
       IN IF CarryingToken(p.pendingConnect, token) # {}
          THEN /\ ~socket
               /\ emitted = <<"disconnect">>
               /\ settled = {Settled("connect", 0, "closed")}
               /\ PendingOf(Session) = {}
          ELSE /\ socket = p.socket
               /\ connected(Session) = connected(p)
               /\ ready = pre.ready
               /\ emitted = <<>>
               /\ pendingConnect = p.pendingConnect
               /\ pendingPongs =
                     p.pendingPongs \ CarryingToken(p.pendingPongs, token)
               /\ pendingGetHeaders =
                     p.pendingGetHeaders
                        \ CarryingToken(p.pendingGetHeaders, token)
               /\ pendingGetAddr =
                     p.pendingGetAddr \ CarryingToken(p.pendingGetAddr, token)
               /\ settled =
                     {Settled("ping", e.nonce, "Aborted") :
                         e \in CarryingToken(p.pendingPongs, token)}
                     \cup {Settled("getHeaders", 0, "Aborted") :
                         e \in CarryingToken(p.pendingGetHeaders, token)}
                     \cup {Settled("getAddr", 0, "Aborted") :
                         e \in CarryingToken(p.pendingGetAddr, token)}

\* A getHeaders request was cancelled on a Ready session while a ping made
\* with another token stayed pending.
C15_Witness ==
    /\ trigger = "abort"
    /\ pre.ready
    /\ Settled("getHeaders", 0, "Aborted") \in settled
    /\ pendingPongs # {}
    /\ socket

\* ------------------------------------------------------------------------
\* Request timeouts

\* The request whose timer fired last, as a (kind, nonce) pair.
TimedOutRequest ==
    IF trigger = "pingTimeout" THEN <<"ping", arg.nonce>>
    ELSE IF trigger = "getHeadersTimeout" THEN <<"getHeaders", 0>>
    ELSE <<"getAddr", 0>>

\* The requests a handler rejected, as (kind, nonce) pairs.
Rejected == {<<w.kind, w.nonce>> : w \in {x \in settled :
                                            x.outcome # "resolved"}}

\* C16: when the timer of a ping, getHeaders or getAddr request fires on a
\* Ready session, the transport is closed, exactly one event is emitted and
\* it is disconnect_unintentional_after_connect, the request's waiter is
\* rejected with the timeout error, every request that was pending is
\* rejected and no request is pending afterwards.
C16_TimeoutDisconnects ==
    (RequestTimedOut /\ pre.ready) =>
       /\ TimedOutRequest \in PendingOf(pre.session)
       /\ ~socket
       /\ ~connected(Session)
       /\ emitted = <<AFTER_CONNECT>>
       /\ Settled(TimedOutRequest[1], TimedOutRequest[2], "timed out")
             \in settled
       /\ Rejected = PendingOf(pre.session)
       /\ \A w \in settled : w.outcome # "resolved"
       /\ PendingOf(Session) = {}

\* A ping timed out on a Ready session while another ping, a getHeaders and
\* a getAddr request were pending.
C16_Witness ==
    /\ trigger = "pingTimeout"
    /\ pre.ready
    /\ Cardinality(pre.session.pendingPongs) >= 2
    /\ pre.session.pendingGetHeaders # {}
    /\ pre.session.pendingGetAddr # {}
    /\ Cardinality(settled) >= 4

\* ------------------------------------------------------------------------
\* Concurrent requests

\* The call that ran last was given a token that had not been aborted (a
\* call given an aborted token throws 'Aborted' before it looks at the slot,
\* as it does when nothing is pending).
TokenLive == arg.signal \notin aborted

\* C17: at most one getHeaders entry is pending; a getHeaders call made
\* while one is pending throws and leaves the session, the pending entry
\* included, as it was; a connect or getAddr call made while one is pending
\* returns the pending promise and changes nothing; a ping made while pings
\* are pending adds its nonce and leaves the others pending.
C17_OnePendingGetHeaders ==
    /\ Cardinality(pendingGetHeaders) <= 1
    /\ (trigger = "getHeaders" /\ pre.session.pendingGetHeaders # {}) =>
          /\ callResult = "threw Another getHeaders request is pending"
          /\ Session = pre.session
          /\ emitted = <<>>
          /\ settled = {}
    /\ (trigger = "connect" /\ pre.session.pendingConnect # {}
          /\ TokenLive) =>
          /\ callResult = "existing promise"
          /\ Session = pre.session
          /\ settled = {}
    /\ (trigger = "getAddr" /\ pre.session.pendingGetAddr # {}
          /\ TokenLive) =>
          /\ callResult = "existing promise"
          /\ Session = pre.session
          /\ settled = {}
    /\ (trigger = "ping" /\ connected(pre.session) /\ TokenLive) =>
          /\ callResult = "new promise"
          /\ pendingPongs = pre.session.pendingPongs
                \cup {[nonce |-> arg.nonce, signal |-> arg.signal]}
          /\ Cardinality(pendingPongs)
                = Cardinality(pre.session.pendingPongs) + 1
          /\ settled = {}

\* A getHeaders call made with another token while a getHeaders request,
\* a getAddr request and a ping were pending.
C17_Witness ==
    /\ trigger = "getHeaders"
    /\ pre.session.pendingGetHeaders # {}
    /\ \A e \in pre.session.pendingGetHeaders : e.signal # arg.signal
    /\ TokenLive
    /\ pre.session.pendingGetAddr # {}
    /\ pre.session.pendingPongs # {}

\* ========================================================================
\* Part 3, continued: syncHeaders
\* ========================================================================

\* At most this many links are chained on _syncHeadersQueue and unsettled.
MaxSyncQueue == 2

\* A link of the chain: the then / catch / finally syncHeaders appends.
\* state is "queued" (its callback has not run), "getHeaders" or "sleep"
\* (its loop awaits that), "resumeResolved" or "resumeRejected" (what it
\* awaited has settled and the loop is due to go on), "done" or "failed"
\* (the loop has returned or thrown and catch / finally are due).
Link(state, signal) == [state |-> state, signal |-> signal]

\* A syncHeaders that chains a link whether or not a loop is running (a
\* variant used to show that the property below depends on the flag).
syncHeadersAlwaysChains(syncing, queue, signal) ==
    [queue |-> Append(queue, Link("queued", signal)), result |-> "new link"]

\* syncHeaders({ signal }): the promise returned is that of the last link.
syncHeaders(syncing, queue, signal) ==
    IF syncing
    THEN [queue |-> queue, result |-> "existing queue"]
    ELSE [queue |-> Append(queue, Link("queued", signal)),
          result |-> "new link"]

\* The getHeaders call of the loop and what the loop does with it: it awaits
\* the promise, or the call threw and the loop throws.
loopGetHeaders(s, abortedTokens, signal) ==
    LET o == getHeaders(s, abortedTokens, signal, "sync")
    IN [o |-> o,
        state |-> IF o.result = "new promise" THEN "getHeaders"
                  ELSE "failed"]

\* _syncHeaders from its start to its first await.
syncHeadersEnter(s, abortedTokens, signal) ==
    IF ~connected(s) \/ signal \in abortedTokens
    THEN [o |-> Outcome(s, <<>>, {}, "none"), state |-> "failed"]
    ELSE loopGetHeaders(s, abortedTokens, signal)

\* The then callback of the first link, or its being skipped because the
\* promise it is chained on was rejected.
syncStart(s, abortedTokens, syncing, settledAs, signal) ==
    IF settledAs = "rejected"
    THEN [o |-> Outcome(s, <<>>, {}, "skipped"), state |-> "failed",
          syncing |-> syncing]
    ELSE IF ~assert(~syncing)
    THEN [o |-> Outcome(s, <<>>, {}, "assert failed"), state |-> "failed",
          syncing |-> syncing]
    ELSE LET e == syncHeadersEnter(s, abortedTokens, signal)
         IN [o |-> e.o, state |-> e.state, syncing |-> TRUE]

\* The loop going on after its getHeaders settled.  branch is what the
\* headers received make it do: "break" (none, invalid or duplicate
\* headers), "throw" (headers out of order), "continue" (ask for more) or
\* "sleep" (wait for a faster node).
syncResume(s, abortedTokens, state, signal, branch) ==
    IF state = "resumeRejected" \/ signal \in abortedTokens
    THEN [o |-> Outcome(s, <<>>, {}, "none"), state |-> "failed"]
    ELSE IF branch = "break"
    THEN [o |-> Outcome(s, <<>>, {}, "none"), state |-> "done"]
    ELSE IF branch = "throw"
    THEN [o |-> Outcome(s, <<>>, {}, "none"), state |-> "failed"]
    ELSE IF branch = "sleep"
    THEN [o |-> Outcome(s, <<>>, {}, "none"), state |-> "sleep"]
    ELSE loopGetHeaders(s, abortedTokens, signal)

\* The loop going on after abortableSleepMsThrow resolved; again tells
\* whether the chain tip was extended less than five seconds ago.
syncWake(s, abortedTokens, signal, again) ==
    IF ~connected(s)
    THEN [o |-> Outcome(s, <<>>, {}, "none"), state |-> "failed"]
    ELSE IF again
    THEN [o |-> Outcome(s, <<>>, {}, "none"),
          state |-> IF signal \in abortedTokens THEN "failed" ELSE "sleep"]
    ELSE loopGetHeaders(s, abortedTokens, signal)

SyncStep(name, r, signal) ==
    /\ SessionStepCore(name, r.o, signal, 0)
    /\ syncHeadersQueue' = [syncHeadersQueue EXCEPT ![1].state = r.state]
    /\ UNCHANGED <<syncSettled, aborted>>

\* A caller calls syncHeaders.
SyncHeaders ==
    /\ syncingHeaders \/ Len(syncHeadersQueue) < MaxSyncQueue
    /\ \E signal \in Signals :
          LET r == syncHeaders(syncingHeaders, syncHeadersQueue, signal)
          IN /\ SessionStepCore("syncHeaders",
                                Outcome(Session, <<>>, {}, r.result),
                                signal, 0)
             /\ syncHeadersQueue' = r.queue
    /\ UNCHANGED <<syncingHeaders, syncSettled, aborted>>

\* The first link's turn has come.
SyncStart ==
    /\ syncHeadersQueue # <<>>
    /\ Head(syncHeadersQueue).state = "queued"
    /\ LET signal == Head(syncHeadersQueue).signal
           r == syncStart(Session, aborted, syncingHeaders, syncSettled,
                          signal)
       IN /\ SyncStep("syncStart", r, signal)
          /\ syncingHeaders' = r.syncing

\* The loop goes on after its getHeaders settled.
SyncResume ==
    /\ syncHeadersQueue # <<>>
    /\ Head(syncHeadersQueue).state \in {"resumeResolved", "resumeRejected"}
    /\ \E branch \in {"break", "throw", "continue", "sleep"} :
          LET link == Head(syncHeadersQueue)
          IN SyncStep("syncResume",
                      syncResume(Session, aborted, link.state, link.signal,
                                 branch),
                      link.signal)
    /\ UNCHANGED syncingHeaders

\* The sleep of the loop is over.
SyncWake ==
    /\ ~MicrotaskDue
    /\ syncHeadersQueue # <<>>
    /\ Head(syncHeadersQueue).state = "sleep"
    /\ \E again \in BOOLEAN :
          LET link == Head(syncHeadersQueue)
          IN SyncStep("syncWake",
                      syncWake(Session, aborted, link.signal, again),
                      link.signal)
    /\ UNCHANGED syncingHeaders

\* The catch and finally of the first link: the link settles.
SyncFinally ==
    /\ syncHeadersQueue # <<>>
    /\ Head(syncHeadersQueue).state \in {"done", "failed"}
    /\ SessionStepCore("syncFinally", Outcome(Session, <<>>, {}, "none"),
                       Head(syncHeadersQueue).signal, 0)
    /\ syncingHeaders' = FALSE
    /\ syncSettled' = IF Head(syncHeadersQueue).state = "done"
                      THEN "fulfilled" ELSE "rejected"
    /\ syncHeadersQueue' = Tail(syncHeadersQueue)
    /\ UNCHANGED aborted

SyncNext ==
    \/ Connect /\ UNCHANGED notSessionVars
    \/ SocketErrorOrClose /\ UNCHANGED notSessionVars
    \/ RecvMessage /\ UNCHANGED notSessionVars
    \/ GetHeaders /\ UNCHANGED notSessionVars
    \/ GetHeadersTimeout /\ UNCHANGED notSessionVars
    \/ AbortToken /\ UNCHANGED notSessionVars
    \/ SessionReturn /\ UNCHANGED notSessionVars
    \/ SyncHeaders /\ UNCHANGED notSessionVars
    \/ SyncStart /\ UNCHANGED notSessionVars
    \/ SyncResume /\ UNCHANGED notSessionVars
    \/ SyncWake /\ UNCHANGED notSessionVars
    \/ SyncFinally /\ UNCHANGED notSessionVars

SyncSpec == Init /\ [][SyncNext]_vars

\* ------------------------------------------------------------------------
\* Properties of syncHeaders
\* ------------------------------------------------------------------------

\* The states of a link whose loop has started and not yet returned or
\* thrown.
LoopStates == {"getHeaders", "sleep", "resumeResolved", "resumeRejected"}

\* The positions in the chain of the links whose loop is running.
RunningLoops(queue) ==
    {i \in 1 .. Len(queue) : queue[i].state \in LoopStates}

\* C18: at most one sync loop runs at any time, and _syncingHeaders is set
\* while one runs; a syncHeaders call made while a loop is running chains
\* no link (starts no loop), leaves the session as it was and returns the
\* promise of a link that is not settled, which settles only after the
\* running loop, the first link of the chain, has ended.
C18_SyncSerialized ==
    /\ Cardinality(RunningLoops(syncHeadersQueue)) <= 1
    /\ RunningLoops(syncHeadersQueue) \subseteq {1}
    /\ RunningLoops(syncHeadersQueue) # {} => syncingHeaders
    /\ callResult # "assert failed"
    /\ (trigger = "syncHeaders" /\ RunningLoops(pre.queue) # {}) =>
          /\ callResult = "existing queue"
          /\ syncHeadersQueue = pre.queue
          /\ Len(syncHeadersQueue) >= 1
          /\ RunningLoops(syncHeadersQueue) = {1}
          /\ Session = pre.session
    /\ trigger = "syncFinally" =>
          /\ Len(pre.queue) = Len(syncHeadersQueue) + 1
          /\ pre.queue[1].state \in {"done", "failed"}
          /\ RunningLoops(syncHeadersQueue) = {}

\* syncHeaders was called while a loop was awaiting getHeaders and another
\* link was queued behind it.
C18_Witness ==
    /\ trigger = "syncHeaders"
    /\ Len(pre.queue) >= 2
    /\ pre.queue[1].state = "getHeaders"
    /\ callResult = "existing queue"

\* ------------------------------------------------------------------------
\* Part 4: the BlockHeadersClient lifecycle.
\*
\* One step is the code that runs between two awaits.  start() and stop()
\* can be called between any two steps.  The sessions are kept by their
\* key (ip:port); of a session the pool model keeps the clientStopSignal
\* it was created with and whether a request waiter is pending on it:
\* "connect" is a waiter of _connectAndTestNode, which carries the signal
\* of the worker, "ping" is a waiter of the ping interval of the session,
\* which does not.  The NUM_WORKERS workers of one loop are one worker;
\* connectionMonitor.start and the opening of the databases succeed; a key
\* is not taken again while a worker still holds a session of that key.
\* ------------------------------------------------------------------------
Pool ==
    [nodeConnections |-> nodeConnections,
     nodeConnectionsConnected |-> nodeConnectionsConnected,
     activeNodeConnectionTests |-> activeNodeConnectionTests,
     sessionToken |-> sessionToken,
     sessionPending |-> sessionPending]

SetPool(p) ==
    /\ nodeConnections' = p.nodeConnections
    /\ nodeConnectionsConnected' = p.nodeConnectionsConnected
    /\ activeNodeConnectionTests' = p.activeNodeConnectionTests
    /\ sessionToken' = p.sessionToken
    /\ sessionPending' = p.sessionPending

\* [Symbol.dispose] of a session: _disconnectNoEmit rejects every waiter.
dispose(pending, n) == [pending EXCEPT ![n] = "none"]

RECURSIVE disposeAll(_, _)
disposeAll(pending, connections) ==
    IF connections = {} THEN pending
    ELSE LET n == CHOOSE m \in connections : TRUE
         IN  disposeAll(dispose(pending, n), connections \ {n})

closeNodeConnections(p) ==
    [p EXCEPT !.nodeConnections = {},
              !.nodeConnectionsConnected = {},
              !.sessionToken = [n \in Nodes |-> 0],
              !.sessionPending = disposeAll(@, p.nodeConnections)]

destroyNodeConnection(p, n) ==
    [p EXCEPT !.nodeConnections = @ \ {n},
              !.nodeConnectionsConnected = @ \ {n},
              !.sessionToken = [@ EXCEPT ![n] = 0],
              !.sessionPending = dispose(@, n)]

\* The abort listeners of the waiters that carry the signal of
\* controller g: each rejects its waiter.
abortListeners(p, g) ==
    [p EXCEPT !.sessionPending =
        [n \in Nodes |-> IF @[n] = "connect" /\ p.sessionToken[n] = g
                         THEN "none" ELSE @[n]]]

\* The link of _connectToNodesQueue that is running or will run next:
\* a link starts when the links before it are done.
RunningLink ==
    IF \E i \in 1..Len(connectToNodesQueue) : connectToNodesQueue[i] # "done"
    THEN CHOOSE i \in 1..Len(connectToNodesQueue) :
             /\ connectToNodesQueue[i] # "done"
             /\ \A j \in 1..(i - 1) : connectToNodesQueue[j] = "done"
    ELSE 0

LinkIs(state) ==
    /\ RunningLink # 0
    /\ connectToNodesQueue[RunningLink] = state

LinkDone(i) == IF i = 0 THEN TRUE ELSE connectToNodesQueue[i] = "done"

\* _start: the queue after the call.
start(queue, num) ==
    IF num < 1 THEN Append(queue, "queued") ELSE queue

Start ==
    /\ numConnectToNodesQueues < 1 => Len(connectToNodesQueue) < MaxLinks
    /\ connectToNodesQueue' = start(connectToNodesQueue,
                                    numConnectToNodesQueues)
    /\ startCall' = [stop |-> stopQueue, link |-> Len(connectToNodesQueue')]
    /\ clientOp' = "start"
    /\ UNCHANGED <<abortController, abortedControllers, stopVars,
                   numConnectToNodesQueues, linkAwaits, linkToken,
                   linkWorker, monitorVars, poolVars>>

\* The link after `await this._stopQueue`: it replaces an aborted
\* controller and captures the controller.
LinkCapture ==
    /\ abortController' = IF abortController \in abortedControllers
                          THEN abortController + 1 ELSE abortController
    /\ linkToken' = abortController'
    /\ connectToNodesQueue' =
           [connectToNodesQueue EXCEPT ![RunningLink] = "connecting"]

\* The callback of a link starts.  With _stopQueue null the await is one
\* tick and the link goes on.
LinkStart ==
    /\ LinkIs("queued")
    /\ numConnectToNodesQueues' = numConnectToNodesQueues + 1
    /\ IF stopQueue = 0
       THEN /\ LinkCapture
            /\ UNCHANGED linkAwaits
       ELSE /\ linkAwaits' = stopQueue
            /\ connectToNodesQueue' =
                   [connectToNodesQueue EXCEPT ![RunningLink] = "awaitStop"]
            /\ UNCHANGED <<abortController, linkToken>>
    /\ clientOp' = "linkStart"
    /\ UNCHANGED <<abortedControllers, stopVars, linkWorker, monitorVars,
                   poolVars, startCall>>

\* The promise of the stop the link awaits has resolved.
LinkResume ==
    /\ LinkIs("awaitStop")
    /\ linkAwaits \in stopsResolved
    /\ LinkCapture
    /\ clientOp' = "linkResume"
    /\ UNCHANGED <<abortedControllers, stopVars, numConnectToNodesQueues,
                   linkAwaits, linkWorker, monitorVars, poolVars,
                   startCall>>

\* _launchNodeConnectionsHealthMonitor up to its first await.
launchNodeConnectionsHealthMonitor(signal) ==
    IF healthMonitorQueue
    THEN UNCHANGED <<healthMonitorQueue, monitorLoop, monitorIteration,
                     monitorToken>>
    ELSE /\ healthMonitorQueue' = TRUE
         /\ monitorIteration' = "none"
         /\ monitorToken' = signal
         /\ monitorLoop' = IF signal \in abortedControllers
                           THEN "none" ELSE "awaiting"

\* _connectToNodes has returned: the workers have returned.  The link
\* launches the health monitor and ends; finally decrements the counter.
\* One loop of the health monitor is modelled at a time.
LinkEnd ==
    /\ LinkIs("connecting")
    /\ linkWorker = 0
    /\ healthMonitorQueue \/ monitorLoop = "none"
    /\ launchNodeConnectionsHealthMonitor(linkToken)
    /\ connectToNodesQueue' =
           [connectToNodesQueue EXCEPT ![RunningLink] = "done"]
    /\ numConnectToNodesQueues' = numConnectToNodesQueues - 1
    /\ clientOp' = "linkEnd"
    /\ UNCHANGED <<abortController, abortedControllers, stopVars,
                   linkAwaits, linkToken, linkWorker, monitorWorker,
                   poolVars, startCall>>

\* The while loop of the health monitor after `await` of the newest
\* promise: it chains the next callback, then tests the signal.
MonitorLoop ==
    /\ monitorLoop = "awaiting"
    /\ monitorIteration \in {"none", "done"}
    /\ IF healthMonitorQueue
       THEN /\ monitorIteration' = "queued"
            /\ stopAwaitsLatest' = FALSE
            /\ monitorLoop' = IF monitorToken \in abortedControllers
                              THEN "none" ELSE "awaiting"
            /\ clientOp' = "monitorLoop"
       ELSE \* this._nodeConnectionsHealthMonitorQueue is null: TypeError
            /\ monitorLoop' = "none"
            /\ clientOp' = "monitorLoopThrows"
            /\ UNCHANGED <<monitorIteration, stopAwaitsLatest>>
    /\ UNCHANGED <<abortController, abortedControllers, stopQueue, stopPc,
                   stopAwaits, stopsResolved, numStops, linkVars,
                   healthMonitorQueue, monitorToken, monitorWorker,
                   poolVars, startCall>>

\* The callback chained by the loop starts.  A stop that awaits the
\* promise the callback was chained on goes on before it.
MonitorIterationStart ==
    /\ monitorIteration = "queued"
    /\ ~(stopPc = "awaitMonitor" /\ ~stopAwaitsLatest)
    /\ monitorIteration' = IF monitorToken \in abortedControllers
                           THEN "done" ELSE "running"
    /\ clientOp' = "monitorIterationStart"
    /\ UNCHANGED <<abortController, abortedControllers, stopVars, linkVars,
                   healthMonitorQueue, monitorLoop, monitorToken,
                   monitorWorker, poolVars, startCall>>

\* The callback returns: its worker has returned and the sleep is over or
\* was aborted.
MonitorIterationEnd ==
    /\ monitorIteration = "running"
    /\ monitorWorker = 0
    /\ monitorIteration' = "done"
    /\ clientOp' = "monitorIterationEnd"
    /\ UNCHANGED <<abortController, abortedControllers, stopVars, linkVars,
                   healthMonitorQueue, monitorLoop, monitorToken,
                   monitorWorker, poolVars, startCall>>

\* The workers: "link" is a worker of _connectToNodes, "monitor" the
\* worker of the health monitor.
Owners == {"link", "monitor"}

WorkerRuns(owner) ==
    IF owner = "link" THEN LinkIs("connecting")
    ELSE monitorIteration = "running"

WorkerSignal(owner) == IF owner = "link" THEN linkToken ELSE monitorToken

WorkerOf(owner) == IF owner = "link" THEN linkWorker ELSE monitorWorker

SetWorker(owner, n) ==
    IF owner = "link"
    THEN linkWorker' = n /\ UNCHANGED monitorWorker
    ELSE monitorWorker' = n /\ UNCHANGED linkWorker

WorkerFrame ==
    UNCHANGED <<abortController, abortedControllers, stopVars,
                connectToNodesQueue, numConnectToNodesQueues, linkAwaits,
                linkToken, healthMonitorQueue, monitorLoop,
                monitorIteration, monitorToken, startCall>>

\* _createConnectedNodeConnection from the top of its loop to the await
\* of _connectAndTestNode: _createNodeConnection and connect().
createNodeConnection(p, n, signal) ==
    [p EXCEPT !.nodeConnections = @ \cup {n},
              !.activeNodeConnectionTests = @ \cup {n},
              !.sessionToken = [@ EXCEPT ![n] = signal],
              !.sessionPending = [@ EXCEPT ![n] = "connect"]]

WorkerCreate ==
    \E owner \in Owners, n \in Nodes \ nodeConnections :
        /\ n \notin {linkWorker, monitorWorker}
        /\ WorkerRuns(owner)
        /\ WorkerOf(owner) = 0
        /\ WorkerSignal(owner) \notin abortedControllers
        /\ SetPool(createNodeConnection(Pool, n, WorkerSignal(owner)))
        /\ SetWorker(owner, n)
        /\ clientOp' = "workerCreate"
        /\ WorkerFrame

\* _connectAndTestNode returned: the session passed the tests.
WorkerTestPassed ==
    \E owner \in Owners :
        LET n == WorkerOf(owner)
        IN  /\ WorkerRuns(owner)
            /\ n # 0
            /\ sessionPending[n] = "connect"
            /\ WorkerSignal(owner) \notin abortedControllers
            /\ SetPool([Pool EXCEPT
                   !.nodeConnectionsConnected = @ \cup {n},
                   !.activeNodeConnectionTests = @ \ {n},
                   !.sessionPending = [@ EXCEPT ![n] = "none"]])
            /\ SetWorker(owner, 0)
            /\ clientOp' = "workerTestPassed"
            /\ WorkerFrame

\* _connectAndTestNode threw (a waiter was rejected, by an abort too): the
\* worker destroys the session when its signal is aborted.  The signal of
\* a worker of _connectToNodes is also aborted when the target is reached.
WorkerTestFailed ==
    \E owner \in Owners, destroy \in BOOLEAN :
        LET n == WorkerOf(owner)
            failed == [Pool EXCEPT
                          !.activeNodeConnectionTests = @ \ {n},
                          !.sessionPending = [@ EXCEPT ![n] = "none"]]
        IN  /\ WorkerRuns(owner)
            /\ n # 0
            /\ WorkerSignal(owner) \in abortedControllers => destroy
            /\ destroy => owner = "link" \/
                          WorkerSignal(owner) \in abortedControllers
            /\ SetPool(IF destroy THEN destroyNodeConnection(failed, n)
                       ELSE failed)
            /\ SetWorker(owner, 0)
            /\ clientOp' = "workerTestFailed"
            /\ WorkerFrame

\* The ping interval of a connected session sends a ping, or the pong of
\* its pending ping arrives.
PingInterval ==
    \E n \in nodeConnectionsConnected :
        /\ sessionPending[n] \in {"none", "ping"}
        /\ sessionPending' = [sessionPending EXCEPT ![n] =
               IF @ = "none" THEN "ping" ELSE "none"]
        /\ clientOp' = "pingInterval"
        /\ UNCHANGED <<abortController, abortedControllers, stopVars,
                       linkVars, monitorVars, nodeConnections,
                       nodeConnectionsConnected, activeNodeConnectionTests,
                       sessionToken, startCall>>

\* A handler of a session event (disconnect, out_of_sync, invalid_blocks,
\* disconnect_unintentional_*) destroys the session.  The handlers return
\* at once when the clientStopSignal of the session is aborted, but for
\* disconnect_unintentional_before_connect, which destroys the session
\* after its await.  The reconnection of disconnect_unintentional_after_
\* connect is not modelled.
SessionEventDestroys ==
    \E n \in nodeConnections :
        /\ SetPool(destroyNodeConnection(Pool, n))
        /\ clientOp' = "sessionEvent"
        /\ UNCHANGED <<abortController, abortedControllers, stopVars,
                       linkVars, monitorVars, startCall>>

\* stop(): a stop that is running is returned, else a new one is queued.
Stop ==
    /\ stopQueue = 0 => numStops < MaxStops
    /\ IF stopQueue # 0
       THEN UNCHANGED <<stopQueue, stopPc, numStops>>
       ELSE /\ numStops' = numStops + 1
            /\ stopQueue' = numStops'
            /\ stopPc' = "queued"
    /\ clientOp' = "stop"
    /\ UNCHANGED <<abortController, abortedControllers, stopAwaits,
                   stopAwaitsLatest, stopsResolved, linkVars, monitorVars,
                   poolVars, startCall>>

\* The callback of stop to its first await: abort, then await
\* this._connectToNodesQueue.
StopAbort ==
    /\ stopPc = "queued"
    /\ abortedControllers' = abortedControllers \cup {abortController}
    /\ SetPool(abortListeners(Pool, abortController))
    /\ stopAwaits' = Len(connectToNodesQueue)
    /\ stopPc' = "awaitConnect"
    /\ clientOp' = "stopAbort"
    /\ UNCHANGED <<abortController, stopQueue, stopAwaitsLatest,
                   stopsResolved, numStops, linkVars, monitorVars,
                   startCall>>

\* _connectToNodesQueue is flushed.  With a health monitor queue stop
\* awaits it, else it closes the sessions.
StopFlushed ==
    /\ stopPc = "awaitConnect"
    /\ LinkDone(stopAwaits)
    /\ IF healthMonitorQueue
       THEN /\ stopPc' = "awaitMonitor"
            /\ stopAwaitsLatest' = TRUE
            /\ UNCHANGED poolVars
       ELSE /\ stopPc' = "awaitDispose"
            /\ SetPool(closeNodeConnections(Pool))
            /\ UNCHANGED stopAwaitsLatest
    /\ clientOp' = "stopFlushed"
    /\ UNCHANGED <<abortController, abortedControllers, stopQueue,
                   stopAwaits, stopsResolved, numStops, linkVars,
                   monitorVars, startCall>>

\* The promise of the health monitor that stop awaits has resolved, and
\* the loop of the monitor, whose await of it is older, has gone on.
StopMonitorFlushed ==
    /\ stopPc = "awaitMonitor"
    /\ \/ ~stopAwaitsLatest
       \/ /\ monitorIteration \in {"none", "done"}
          /\ monitorLoop # "awaiting"
    /\ healthMonitorQueue' = FALSE
    /\ SetPool(closeNodeConnections(Pool))
    /\ stopPc' = "awaitDispose"
    /\ clientOp' = "stopMonitorFlushed"
    /\ UNCHANGED <<abortController, abortedControllers, stopQueue,
                   stopAwaits, stopAwaitsLatest, stopsResolved, numStops,
                   linkVars, monitorLoop, monitorIteration, monitorToken,
                   monitorWorker, startCall>>

\* The connection monitor is disposed: the callback of stop returns,
\* finally sets _stopQueue to null and the promise of stop resolves.
StopFinally ==
    /\ stopPc = "awaitDispose"
    /\ stopsResolved' = stopsResolved \cup {stopQueue}
    /\ stopQueue' = 0
    /\ stopPc' = "idle"
    /\ clientOp' = "stopResolved"
    /\ UNCHANGED <<abortController, abortedControllers, stopAwaits,
                   stopAwaitsLatest, numStops, linkVars, monitorVars,
                   poolVars, startCall>>

notClientVars == <<graphVars, callVars, exited, locatorVars, sessionVars,
                  nodesVars, frameVars,
                   poolEventVars,
                   workerVars,
                   saveVars,
                   syncPoolVars,
                   loopVars,
                   keepaliveVars,
                   transportVars,
                   headerVars>>

ClientNext ==
    \/ Start /\ UNCHANGED notClientVars
    \/ LinkStart /\ UNCHANGED notClientVars
    \/ LinkResume /\ UNCHANGED notClientVars
    \/ LinkEnd /\ UNCHANGED notClientVars
    \/ MonitorLoop /\ UNCHANGED notClientVars
    \/ MonitorIterationStart /\ UNCHANGED notClientVars
    \/ MonitorIterationEnd /\ UNCHANGED notClientVars
    \/ WorkerCreate /\ UNCHANGED notClientVars
    \/ WorkerTestPassed /\ UNCHANGED notClientVars
    \/ WorkerTestFailed /\ UNCHANGED notClientVars
    \/ PingInterval /\ UNCHANGED notClientVars
    \/ SessionEventDestroys /\ UNCHANGED notClientVars
    \/ Stop /\ UNCHANGED notClientVars
    \/ StopAbort /\ UNCHANGED notClientVars
    \/ StopFlushed /\ UNCHANGED notClientVars
    \/ StopMonitorFlushed /\ UNCHANGED notClientVars
    \/ StopFinally /\ UNCHANGED notClientVars

ClientSpec == Init /\ [][ClientNext]_vars

\* ------------------------------------------------------------------------
\* Properties of the lifecycle.
\* ------------------------------------------------------------------------
\* The health monitor has finished: its loop has returned and no callback
\* of it is running.
MonitorFinished == monitorLoop = "none" /\ monitorIteration # "running"

\* stop has just called _closeNodeConnections.
StopDisposed ==
    /\ clientOp \in {"stopFlushed", "stopMonitorFlushed"}
    /\ stopPc = "awaitDispose"

StopOrder ==
    StopDisposed =>
        /\ abortedControllers # {}
        /\ LinkDone(stopAwaits)
        /\ \A i \in 1..Len(connectToNodesQueue) :
               connectToNodesQueue[i] # "connecting"
        /\ MonitorFinished

PoolEmpty ==
    /\ nodeConnections = {}
    /\ nodeConnectionsConnected = {}
    /\ activeNodeConnectionTests = {}

NoPendingWaiter == \A n \in Nodes : sessionPending[n] = "none"

\* C19: stop() aborts the cancellation token, then waits for the
\* connect-to-nodes queue and the health monitor to finish, and only then
\* disposes the sessions; when the promise of stop() resolves every
\* session map is empty and no session has a pending request waiter.
C19_StopLeavesNothing ==
    /\ StopOrder
    /\ clientOp = "stopResolved" => PoolEmpty /\ NoPendingWaiter

OneConnectionLoop ==
    Cardinality({i \in 1..Len(connectToNodesQueue) :
                    connectToNodesQueue[i] \in {"awaitStop", "connecting"}})
        <= 1

StartWaitsForStop ==
    (startCall.stop # 0 /\ LinkDone(startCall.link))
        => startCall.stop \in stopsResolved

StartReplacesToken ==
    (clientOp \in {"linkStart", "linkResume"} /\ LinkIs("connecting"))
        => linkToken \notin abortedControllers

\* C20: under any interleaving of start() and stop() calls at most one
\* connection loop runs at a time, the promise of a start() called while a
\* stop is running does not resolve before that stop has finished, and a
\* link that starts its loop holds a cancellation token that is not
\* aborted.
C20_StartReentrant ==
    /\ OneConnectionLoop
    /\ StartWaitsForStop
    /\ StartReplacesToken

\* ========================================================================
\* Part 5: the NodesDatabase
\*
\* The metrics of every peer, the rating computed from them, the set of
\* the peers that are not blacklisted and the index of the peers by the
\* time they were last seen.  Times are in days.  The writes to LevelDB
\* that every update chains on _metricsSaveQueue are not part of the
\* model: no handler reads them back.
\*
\* The rating of the code is a product of six scores in (0, 1], each
\* raised to a weight.  The model keeps 100 times its natural logarithm,
\* rounded: a sum of six terms, each 100 * weight * ln(score), which are
\* tabulated from the score functions of the code.  A higher rating is
\* a better one in both.
\* ========================================================================

\* An optional time that is not set.  daysSince treats the time 0 in the
\* same way (!timestamp).
UNDEFINED == 0

NEGATIVE_INFINITY == -1000000

MAX_recentPingTimes_LENGTH == 10

MAX_recentUnintentionalDisconnectTimesMs_LENGTH == 10

\* A disconnect less than four weeks after the last connect or ping is a
\* disconnect after connecting.
FOUR_WEEKS == 28

\* The two ping durations a call can report, in milliseconds.
GOOD_PING_DURATION == 300

BAD_PING_DURATION == 10000

MathMax(a, b) == IF a >= b THEN a ELSE b

MathMin(a, b) == IF a <= b THEN a ELSE b

\* A bug: the array is never shortened.
PushNoShift(array, x, max) == Append(array, x)

\* Array.prototype.push followed by shift() when the array has become
\* longer than max.
PushShift(array, x, max) ==
    LET pushed == Append(array, x)
    IN  IF Len(pushed) > max THEN Tail(pushed) ELSE pushed

daysSince(timestamp, now) == MathMax(0, now - timestamp)

\* badEventRecencyScore(daysSince(lastOutOfSyncTimeMs), 0.98, 3.0) with
\* the weight 0.38, for 0, 1, 2, ... days.
OUT_OF_SYNC_TERM == <<114, 79, 49, 26, 12, 5, 2, 1>>

\* badEventRecencyScore(daysSince(lastInvalidChainDetectedTimeMs), 0.049,
\* 70) with the weight 0.5, for 0, 1, 2, ... weeks.
INVALID_CHAIN_TERM == <<173, 157, 140, 124, 109, 94, 80, 67, 55, 44, 35, 27,
                        20, 15, 11, 8, 6, 4, 3, 2, 2, 1, 1, 1>>

\* badEventRecencyScore(effectiveDaysSince, 0.4, 22) with the weight 0.3,
\* for 0, 1, 2, ... days.
DISCONNECT_BEFORE_CONNECT_TERM ==
    <<264, 252, 240, 228, 216, 204, 192, 180, 168, 156, 144, 132, 121, 109,
      97, 86, 75, 64, 54, 44, 35, 27, 21, 15, 11, 8, 6, 4, 3, 2, 1, 1, 1>>

\* The ping score with the weight 0.6 when 0, 1, ... 10 tenths of the
\* pings are bad ones.
PING_TERM == <<1, 7, 13, 20, 28, 37, 48, 61, 77, 100, 138>>

\* 150 * ln(n): five times the logarithm of the amplification of n
\* disconnects at one time, with the weight 0.3.
AMPLIFICATION_TERM == <<0, 104, 165, 208, 241, 269, 292, 312, 330, 345>>

TableAt(table, i) == IF i < Len(table) THEN table[i + 1] ELSE 0

badEventRecencyScore(table, timestamp, now) ==
    IF timestamp = UNDEFINED THEN 0 ELSE TableAt(table, daysSince(timestamp, now))

\* The default score 0.25 without pings, else the average of the scores
\* of the pings (the weights of the code, which favour recent pings, are
\* taken as equal).
calculatePingScore(recentPingTimes, now) ==
    LET n == Len(recentPingTimes)
        bad == Cardinality({i \in 1 .. n :
                   recentPingTimes[i].pingDurationMs = BAD_PING_DURATION})
    IN  IF n = 0 THEN 83 ELSE PING_TERM[(10 * bad) \div n + 1]

calculateDisconnectBeforeConnectScore(recentTimes, lastSeenTimeMs, now) ==
    IF Len(recentTimes) = 0 THEN 0
    ELSE LET last == recentTimes[Len(recentTimes)]
             daysToAdd == IF last < lastSeenTimeMs THEN 10 ELSE 0
         IN  TableAt(DISCONNECT_BEFORE_CONNECT_TERM,
                     daysSince(last, now) + daysToAdd)

\* The largest penalty of a disconnect: its recency times the number of
\* disconnects close to it (within hours: here, at the same time).  The
\* score is clamped at epsilon, which is the term 414.
calculateDisconnectAfterConnectScore(now, recentTimes) ==
    LET N == Len(recentTimes)
        amplification(i) ==
            Cardinality({j \in 1 .. N : recentTimes[j] = recentTimes[i]})
        penalty(i) == 128 + AMPLIFICATION_TERM[amplification(i)]
                          - 21 * (now - recentTimes[i])
        maxPenalty == CHOOSE x \in {penalty(i) : i \in 1 .. N} :
                          \A i \in 1 .. N : penalty(i) <= x
    IN  IF N = 0 THEN 0 ELSE MathMin(414, MathMax(0, maxPenalty))

\* 0.5 for a peer that never connected, else between 1 and the floor 0.8.
calculateConnectRecencyScore(lastConnectionTime, now) ==
    IF lastConnectionTime = 0 THEN 14
    ELSE LET days == daysSince(lastConnectionTime, now)
         IN  IF days < 23 THEN 0
             ELSE IF days < 28 THEN 1
             ELSE IF days < 32 THEN 2
             ELSE IF days < 36 THEN 3
             ELSE 4

\* calculateRating: the latestMetricsUpdateTimeMs it is given is not used.
calculateRating(metrics, timeMs) ==
    0 - ( calculatePingScore(metrics.recentPingTimes, timeMs)
        + calculateDisconnectBeforeConnectScore(
              metrics.recentUnintentionalDisconnectBeforeConnectTimesMs,
              metrics.lastSeenTimeMs, timeMs)
        + calculateDisconnectAfterConnectScore(timeMs,
              metrics.recentUnintentionalDisconnectAfterConnectTimesMs)
        + badEventRecencyScore(OUT_OF_SYNC_TERM,
              metrics.lastOutOfSyncTimeMs, timeMs)
        + (IF metrics.lastInvalidChainDetectedTimeMs = UNDEFINED THEN 0
           ELSE TableAt(INVALID_CHAIN_TERM,
                    daysSince(metrics.lastInvalidChainDetectedTimeMs, timeMs)
                        \div 7))
        + calculateConnectRecencyScore(
              MathMax(metrics.lastConnectTimeMs,
                  MathMax(metrics.lastConnectAndTestTimeMs,
                          metrics.lastDataReceivedTimeMs)),
              timeMs) )

createDefaultNodeConnectionMetrics(lastSeenTimeMs) ==
    [lastSeenTimeMs |-> lastSeenTimeMs,
     recentPingTimes |-> <<>>,
     recentUnintentionalDisconnectBeforeConnectTimesMs |-> <<>>,
     recentUnintentionalDisconnectAfterConnectTimesMs |-> <<>>,
     lastConnectTimeMs |-> UNDEFINED,
     lastConnectAndTestTimeMs |-> UNDEFINED,
     lastDataReceivedTimeMs |-> UNDEFINED,
     lastOutOfSyncTimeMs |-> UNDEFINED,
     lastInvalidChainDetectedTimeMs |-> UNDEFINED]

\* The highest rating of five peers that are borderline acceptable.  The
\* disconnect of twelve hours ago is one of the same day, and the connect
\* a second or ninety before an event is one at the time of the event.
createBlacklistedRatingThreshold ==
    LET now == FIRST_CALL_TIME
        metrics0 == [createDefaultNodeConnectionMetrics(now - 20) EXCEPT
            !.recentUnintentionalDisconnectBeforeConnectTimesMs =
                <<now - 20>>]
        metrics1 == [createDefaultNodeConnectionMetrics(now) EXCEPT
            !.recentUnintentionalDisconnectAfterConnectTimesMs =
                <<now - 1, now, now>>,
            !.recentPingTimes =
                <<[pingDurationMs |-> GOOD_PING_DURATION,
                   pingTimestampMs |-> now]>>,
            !.lastConnectTimeMs = now]
        metrics2 == [createDefaultNodeConnectionMetrics(now) EXCEPT
            !.lastOutOfSyncTimeMs = now - 2,
            !.lastConnectTimeMs = now - 2]
        metrics3 == [createDefaultNodeConnectionMetrics(now) EXCEPT
            !.recentPingTimes =
                <<[pingDurationMs |-> BAD_PING_DURATION,
                   pingTimestampMs |-> now]>>,
            !.lastConnectTimeMs = now]
        metrics4 == [createDefaultNodeConnectionMetrics(now) EXCEPT
            !.lastInvalidChainDetectedTimeMs = now - 60,
            !.lastConnectTimeMs = now - 60]
        ratings == {calculateRating(metrics0, now),
                    calculateRating(metrics1, now),
                    calculateRating(metrics2, now),
                    calculateRating(metrics3, now),
                    calculateRating(metrics4, now)}
    IN  CHOOSE r \in ratings : \A x \in ratings : x <= r

\* NodesDatabase._blacklistedRatingThreshold, computed once.
blacklistedRatingThreshold == createBlacklistedRatingThreshold

\* ------------------------------------------------------------------------
\* The in-memory maps
\* ------------------------------------------------------------------------
\* The database as one value, so that the methods can be written as
\* operators from database to database.
NodesDb == [metrics        |-> ipPortStringToMetrics,
            rating         |-> ipPortStringToRating,
            nonBlacklisted |-> nonBlacklistedIpPortStrings,
            seen           |-> seenTimeToIpPortStringSet]

\* A bug: a peer whose rating was acceptable is not taken out of the set
\* of the peers that are not blacklisted.
updateMetricsKeepsNonBlacklisted(db, ipPortString, newMetrics, timeMs) ==
    LET newRating == calculateRating(newMetrics, timeMs)
    IN  [db EXCEPT
            !.metrics = MapSet(@, ipPortString, newMetrics),
            !.rating = MapSet(@, ipPortString, newRating),
            !.nonBlacklisted =
                IF newRating >= blacklistedRatingThreshold
                THEN @ \cup {ipPortString} ELSE @,
            !.seen = (@ \ {<<db.metrics[ipPortString].lastSeenTimeMs,
                             ipPortString>>})
                         \cup {<<newMetrics.lastSeenTimeMs, ipPortString>>}]

\* _updateMetricsBatch for one peer of the batch.  Every caller has made
\* sure with _getMetricsCopySetDefault that the peer has metrics and a
\* rating.
updateMetrics(db, ipPortString, newMetrics, timeMs) ==
    LET oldRating == db.rating[ipPortString]
        oldSeenTime == db.metrics[ipPortString].lastSeenTimeMs
        newRating == calculateRating(newMetrics, timeMs)
        newSeenTime == newMetrics.lastSeenTimeMs
        deleted == IF oldRating >= blacklistedRatingThreshold
                   THEN db.nonBlacklisted \ {ipPortString}
                   ELSE db.nonBlacklisted
    IN  [db EXCEPT
            !.metrics = MapSet(@, ipPortString, newMetrics),
            !.rating = MapSet(@, ipPortString, newRating),
            !.nonBlacklisted =
                IF newRating >= blacklistedRatingThreshold
                THEN deleted \cup {ipPortString} ELSE deleted,
            !.seen = IF oldSeenTime # newSeenTime
                     THEN (@ \ {<<oldSeenTime, ipPortString>>})
                              \cup {<<newSeenTime, ipPortString>>}
                     ELSE @]

\* _getMetricsCopySetDefault: a peer without metrics is given the default
\* ones, seen at timeMs.  The copy it returns is the metrics of the peer in
\* the database it leaves.
getMetricsCopySetDefault(db, ipPortString, timeMs) ==
    IF ipPortString \in DOMAIN db.metrics THEN db
    ELSE LET metrics == createDefaultNodeConnectionMetrics(timeMs)
             defaultRating == calculateRating(metrics, timeMs)
         IN  [db EXCEPT
                 !.metrics = MapSet(@, ipPortString, metrics),
                 !.seen = @ \cup {<<timeMs, ipPortString>>},
                 !.rating = MapSet(@, ipPortString, defaultRating),
                 !.nonBlacklisted =
                     IF defaultRating >= blacklistedRatingThreshold
                     THEN @ \cup {ipPortString} ELSE @]

\* _recalculateNodeRating.
recalculateNodeRating(db, ipPortString, timeMs) ==
    IF ipPortString \notin DOMAIN db.metrics THEN db
    ELSE LET rating == calculateRating(db.metrics[ipPortString], timeMs)
             known == ipPortString \in DOMAIN db.rating
             oldRating == IF known THEN db.rating[ipPortString] ELSE UNDEFINED
         IN  IF known /\ oldRating = rating THEN db
             ELSE [db EXCEPT
                     !.rating = MapSet(@, ipPortString, rating),
                     !.nonBlacklisted =
                         LET deleted ==
                                 IF /\ known
                                    /\ oldRating >= blacklistedRatingThreshold
                                    /\ rating < blacklistedRatingThreshold
                                 THEN @ \ {ipPortString} ELSE @
                         IN  IF rating >= blacklistedRatingThreshold
                             THEN deleted \cup {ipPortString} ELSE deleted]

\* _buildRatingsMapsFromMetrics: nothing when every peer has a rating and
\* the last rebuild is less than 10 s old, else every rating is computed
\* again.
buildRatingsMapsFromMetrics(db, timeMs, updatedRecently) ==
    IF /\ Cardinality(DOMAIN db.rating) = Cardinality(DOMAIN db.metrics)
       /\ updatedRecently
    THEN db
    ELSE LET rating == [p \in DOMAIN db.metrics |->
                           calculateRating(db.metrics[p], timeMs)]
         IN  [db EXCEPT
                 !.rating = rating,
                 !.nonBlacklisted =
                     {p \in DOMAIN db.metrics :
                         rating[p] >= blacklistedRatingThreshold}]

\* A bug: a peer whose rating is the threshold is blacklisted too.
isBlacklistedAtThreshold(db, ipPortString, timeMs) ==
    LET after == recalculateNodeRating(db, ipPortString, timeMs)
    IN  [db |-> after,
         result |-> IF ipPortString \notin DOMAIN after.rating THEN FALSE
                    ELSE after.rating[ipPortString]
                             <= blacklistedRatingThreshold]

\* isBlacklisted: the database it leaves and what it returns.
isBlacklisted(db, ipPortString, timeMs) ==
    LET after == recalculateNodeRating(db, ipPortString, timeMs)
    IN  [db |-> after,
         result |-> IF ipPortString \notin DOMAIN after.rating THEN FALSE
                    ELSE after.rating[ipPortString]
                             < blacklistedRatingThreshold]

\* getNumNodesNonBlacklisted without excluded peers.
getNumNodesNonBlacklisted(db, timeMs, updatedRecently) ==
    LET after == buildRatingsMapsFromMetrics(db, timeMs, updatedRecently)
    IN  [db |-> after, result |-> Cardinality(after.nonBlacklisted)]

\* getMostRecentlySeenNodes with allowBlacklisted: the peers of the seen
\* time index, the one seen last first.  Peers seen at one time are in
\* the order they were added to the set of that time, which the model does
\* not keep: p is before q when it was seen later.
SeenBefore(db, p, q) ==
    \E s \in db.seen, t \in db.seen : s[2] = p /\ t[2] = q /\ s[1] > t[1]

\* ------------------------------------------------------------------------
\* The metric event handlers, from metrics to metrics: what they do to
\* the copy before they hand it to _updateMetrics.
\* ------------------------------------------------------------------------
\* A bug: the ping is recorded and the seen time is left as it is.
addPingTimeMsNotSeen(metrics, pingTimestampMs, pingDurationMs) ==
    [metrics EXCEPT
        !.recentPingTimes =
            PushShift(@, [pingDurationMs |-> pingDurationMs,
                          pingTimestampMs |-> pingTimestampMs],
                      MAX_recentPingTimes_LENGTH)]

addPingTimeMs(metrics, pingTimestampMs, pingDurationMs) ==
    [metrics EXCEPT
        !.recentPingTimes =
            PushShift(@, [pingDurationMs |-> pingDurationMs,
                          pingTimestampMs |-> pingTimestampMs],
                      MAX_recentPingTimes_LENGTH),
        !.lastSeenTimeMs = pingTimestampMs]

\* Math.max(...recentPingTimes.map(ping => ping.pingTimestampMs)).
latestPingTime(recentPingTimes) ==
    IF Len(recentPingTimes) = 0 THEN NEGATIVE_INFINITY
    ELSE CHOOSE t \in {recentPingTimes[i].pingTimestampMs :
                          i \in 1 .. Len(recentPingTimes)} :
             \A i \in 1 .. Len(recentPingTimes) :
                 recentPingTimes[i].pingTimestampMs <= t

\* The threshold taken from the last connect alone, the pings left out.
DisconnectAfterLastConnect(metrics, disconnectTimeMs) ==
    /\ metrics.lastConnectTimeMs # UNDEFINED
    /\ disconnectTimeMs < metrics.lastConnectTimeMs + FOUR_WEEKS

\* The disconnect is one after connecting.
DisconnectAfterConnect(metrics, disconnectTimeMs) ==
    LET connectTimeThreshold ==
            IF metrics.lastConnectTimeMs = UNDEFINED THEN NEGATIVE_INFINITY
            ELSE metrics.lastConnectTimeMs
        timeThreshold ==
            MathMax(connectTimeThreshold,
                    latestPingTime(metrics.recentPingTimes)) + FOUR_WEEKS
    IN  disconnectTimeMs < timeThreshold

\* The seen time is left as it is.
addRecentUnintentionalDisconnectTimesMs(metrics, disconnectTimeMs) ==
    IF DisconnectAfterConnect(metrics, disconnectTimeMs)
    THEN [metrics EXCEPT
            !.recentUnintentionalDisconnectAfterConnectTimesMs =
                PushShift(@, disconnectTimeMs,
                          MAX_recentUnintentionalDisconnectTimesMs_LENGTH)]
    ELSE [metrics EXCEPT
            !.recentUnintentionalDisconnectBeforeConnectTimesMs =
                PushShift(@, disconnectTimeMs,
                          MAX_recentUnintentionalDisconnectTimesMs_LENGTH)]

addLastConnectTimeMs(metrics, lastConnectTimeMs) ==
    [metrics EXCEPT !.lastConnectTimeMs = lastConnectTimeMs,
                    !.lastSeenTimeMs = lastConnectTimeMs]

addLastConnectAndTestTimeMs(metrics, lastConnectAndTestTimeMs) ==
    [metrics EXCEPT
        !.lastConnectAndTestTimeMs = lastConnectAndTestTimeMs,
        !.lastConnectTimeMs =
            IF @ = UNDEFINED THEN lastConnectAndTestTimeMs ELSE @,
        !.lastSeenTimeMs = lastConnectAndTestTimeMs]

addLastDataReceivedTimeMs(metrics, lastDataReceivedTimeMs) ==
    [metrics EXCEPT !.lastDataReceivedTimeMs = lastDataReceivedTimeMs,
                    !.lastSeenTimeMs = lastDataReceivedTimeMs]

addLastOutOfSyncTimeMs(metrics, lastOutOfSyncTimeMs) ==
    [metrics EXCEPT !.lastOutOfSyncTimeMs = lastOutOfSyncTimeMs,
                    !.lastSeenTimeMs = lastOutOfSyncTimeMs]

addLastInvalidChainDetectedTimeMs(metrics, lastInvalidChainDetectedTimeMs) ==
    [metrics EXCEPT
        !.lastInvalidChainDetectedTimeMs = lastInvalidChainDetectedTimeMs,
        !.lastSeenTimeMs = lastInvalidChainDetectedTimeMs]

addSeen(metrics, seenTimeMs) ==
    [metrics EXCEPT !.lastSeenTimeMs = seenTimeMs]

\* What the handler called name does to the copy of the metrics.
HandlerMetrics(name, metrics, timeMs, pingDurationMs) ==
    CASE name = "addPingTimeMs" ->
             addPingTimeMs(metrics, timeMs, pingDurationMs)
      [] name = "addRecentUnintentionalDisconnectTimesMs" ->
             addRecentUnintentionalDisconnectTimesMs(metrics, timeMs)
      [] name = "addLastConnectTimeMs" ->
             addLastConnectTimeMs(metrics, timeMs)
      [] name = "addLastConnectAndTestTimeMs" ->
             addLastConnectAndTestTimeMs(metrics, timeMs)
      [] name = "addLastDataReceivedTimeMs" ->
             addLastDataReceivedTimeMs(metrics, timeMs)
      [] name = "addLastOutOfSyncTimeMs" ->
             addLastOutOfSyncTimeMs(metrics, timeMs)
      [] name = "addLastInvalidChainDetectedTimeMs" ->
             addLastInvalidChainDetectedTimeMs(metrics, timeMs)
      [] name = "addSeen" -> addSeen(metrics, timeMs)

\* A handler as a whole: get or create the metrics, change the copy,
\* _updateMetrics.
Handle(db, name, ipPortString, timeMs, pingDurationMs) ==
    LET created == getMetricsCopySetDefault(db, ipPortString, timeMs)
    IN  updateMetrics(created, ipPortString,
            HandlerMetrics(name, created.metrics[ipPortString], timeMs,
                           pingDurationMs),
            timeMs)

\* addSeenBatch: every copy is taken (and every unknown peer created)
\* before the batch is handed to _updateMetricsBatch, which goes through it
\* in the order of ipPorts.
RECURSIVE addSeenBatchCreate(_, _, _)
addSeenBatchCreate(db, ipPorts, seenTimeMs) ==
    IF ipPorts = <<>> THEN db
    ELSE addSeenBatchCreate(
             getMetricsCopySetDefault(db, Head(ipPorts), seenTimeMs),
             Tail(ipPorts), seenTimeMs)

RECURSIVE addSeenBatchUpdate(_, _, _)
addSeenBatchUpdate(db, ipPorts, seenTimeMs) ==
    IF ipPorts = <<>> THEN db
    ELSE addSeenBatchUpdate(
             updateMetrics(db, Head(ipPorts),
                 addSeen(db.metrics[Head(ipPorts)], seenTimeMs), seenTimeMs),
             Tail(ipPorts), seenTimeMs)

addSeenBatch(db, ipPorts, seenTimeMs) ==
    addSeenBatchUpdate(addSeenBatchCreate(db, ipPorts, seenTimeMs),
                       ipPorts, seenTimeMs)

\* ------------------------------------------------------------------------
\* The calls
\* ------------------------------------------------------------------------
\* How many calls a behaviour of the database makes.
MaxNodesCalls == 3

\* How many ping and disconnect events the one peer of DequeSpec is given.
MaxDequeCalls == 12

\* Date.now() of a call is that of the call before it or 2 or 28 days
\* later.
TimeSteps == {0, 2, 28}

\* The call called name has left the database db.
NodesCalled(name, ipPorts, timeMs, result, db) ==
    /\ ipPortStringToMetrics' = db.metrics
    /\ ipPortStringToRating' = db.rating
    /\ nonBlacklistedIpPortStrings' = db.nonBlacklisted
    /\ seenTimeToIpPortStringSet' = db.seen
    /\ dateNow' = timeMs
    /\ nodesOp' = [name |-> name, ipPorts |-> ipPorts, timeMs |-> timeMs,
                   result |-> result]
    /\ nodesPre' = NodesDb
    /\ numNodesCalls' = numNodesCalls + 1

\* A metric event handler is called for the peer at timeMs.
HandlerCalled(name, ipPortString, timeMs, pingDurationMs) ==
    /\ NodesCalled(name, {ipPortString}, timeMs, FALSE,
                   Handle(NodesDb, name, ipPortString, timeMs, pingDurationMs))
    /\ UNCHANGED ratingsUpdatedRecently

\* The ping event is added to the history of the peer.
PingCalled(ipPortString, timeMs, pingDurationMs) ==
    /\ HandlerCalled("addPingTimeMs", ipPortString, timeMs, pingDurationMs)
    /\ nodesEvents' = [nodesEvents EXCEPT ![ipPortString].ping =
           Append(@, [pingDurationMs |-> pingDurationMs,
                      pingTimestampMs |-> timeMs])]

\* The disconnect event is added to the history of the peer, as one after
\* connecting or one before.
DisconnectCalled(ipPortString, timeMs) ==
    /\ HandlerCalled("addRecentUnintentionalDisconnectTimesMs", ipPortString,
                     timeMs, 0)
    /\ nodesEvents' =
           IF DisconnectAfterConnect(
                  getMetricsCopySetDefault(NodesDb, ipPortString, timeMs)
                      .metrics[ipPortString], timeMs)
           THEN [nodesEvents EXCEPT ![ipPortString].after = Append(@, timeMs)]
           ELSE [nodesEvents EXCEPT ![ipPortString].before = Append(@, timeMs)]

AddPingTimeMs ==
    /\ numNodesCalls < MaxNodesCalls
    /\ \E p \in Peers, step \in TimeSteps,
          d \in {GOOD_PING_DURATION, BAD_PING_DURATION} :
           PingCalled(p, dateNow + step, d)

AddRecentUnintentionalDisconnectTimesMs ==
    /\ numNodesCalls < MaxNodesCalls
    /\ \E p \in Peers, step \in TimeSteps :
           DisconnectCalled(p, dateNow + step)

AddLastConnectTimeMs ==
    /\ numNodesCalls < MaxNodesCalls
    /\ \E p \in Peers, step \in TimeSteps :
           HandlerCalled("addLastConnectTimeMs", p, dateNow + step, 0)
    /\ UNCHANGED nodesEvents

AddLastConnectAndTestTimeMs ==
    /\ numNodesCalls < MaxNodesCalls
    /\ \E p \in Peers, step \in TimeSteps :
           HandlerCalled("addLastConnectAndTestTimeMs", p, dateNow + step, 0)
    /\ UNCHANGED nodesEvents

AddLastDataReceivedTimeMs ==
    /\ numNodesCalls < MaxNodesCalls
    /\ \E p \in Peers, step \in TimeSteps :
           HandlerCalled("addLastDataReceivedTimeMs", p, dateNow + step, 0)
    /\ UNCHANGED nodesEvents

AddLastOutOfSyncTimeMs ==
    /\ numNodesCalls < MaxNodesCalls
    /\ \E p \in Peers, step \in TimeSteps :
           HandlerCalled("addLastOutOfSyncTimeMs", p, dateNow + step, 0)
    /\ UNCHANGED nodesEvents

AddLastInvalidChainDetectedTimeMs ==
    /\ numNodesCalls < MaxNodesCalls
    /\ \E p \in Peers, step \in TimeSteps :
           HandlerCalled("addLastInvalidChainDetectedTimeMs", p,
                         dateNow + step, 0)
    /\ UNCHANGED nodesEvents

AddSeen ==
    /\ numNodesCalls < MaxNodesCalls
    /\ \E p \in Peers, step \in TimeSteps :
           HandlerCalled("addSeen", p, dateNow + step, 0)
    /\ UNCHANGED nodesEvents

\* addSeenBatch with the addresses a peer has sent: all the peers.
AddSeenBatch ==
    /\ numNodesCalls < MaxNodesCalls
    /\ \E step \in TimeSteps :
           NodesCalled("addSeenBatch", Peers, dateNow + step, FALSE,
               addSeenBatch(NodesDb, [i \in 1 .. MaxPeers |-> i],
                            dateNow + step))
    /\ UNCHANGED <<ratingsUpdatedRecently, nodesEvents>>

IsBlacklisted ==
    /\ numNodesCalls < MaxNodesCalls
    /\ \E p \in Peers, step \in TimeSteps :
           LET r == isBlacklisted(NodesDb, p, dateNow + step)
           IN  NodesCalled("isBlacklisted", {p}, dateNow + step, r.result,
                           r.db)
    /\ UNCHANGED <<ratingsUpdatedRecently, nodesEvents>>

\* getNumNodesNonBlacklisted.  A rebuild sets _timeOfLastRatingsUpdateMs.
GetNumNodesNonBlacklisted ==
    /\ numNodesCalls < MaxNodesCalls
    /\ \E step \in TimeSteps :
           LET r == getNumNodesNonBlacklisted(NodesDb, dateNow + step,
                                              ratingsUpdatedRecently)
           IN  NodesCalled("getNumNodesNonBlacklisted", {}, dateNow + step,
                           r.result, r.db)
    /\ ratingsUpdatedRecently' = TRUE
    /\ UNCHANGED nodesEvents

\* Ten seconds have passed since the ratings were last rebuilt.
RatingsUpdateGrowsOld ==
    /\ ratingsUpdatedRecently
    /\ ratingsUpdatedRecently' = FALSE
    /\ UNCHANGED <<ipPortStringToMetrics, ipPortStringToRating,
                   nonBlacklistedIpPortStrings, seenTimeToIpPortStringSet,
                   dateNow, nodesOp, nodesPre, nodesEvents, numNodesCalls>>

notNodesVars == <<graphVars, callVars, exited, locatorVars, sessionVars,
                  clientVars, frameVars,
                  poolEventVars,
                  workerVars,
                  saveVars,
                  syncPoolVars,
                  loopVars,
                  keepaliveVars,
                  transportVars,
                  headerVars>>

NodesNext ==
    \/ AddPingTimeMs /\ UNCHANGED notNodesVars
    \/ AddRecentUnintentionalDisconnectTimesMs /\ UNCHANGED notNodesVars
    \/ AddLastConnectTimeMs /\ UNCHANGED notNodesVars
    \/ AddLastConnectAndTestTimeMs /\ UNCHANGED notNodesVars
    \/ AddLastDataReceivedTimeMs /\ UNCHANGED notNodesVars
    \/ AddLastOutOfSyncTimeMs /\ UNCHANGED notNodesVars
    \/ AddLastInvalidChainDetectedTimeMs /\ UNCHANGED notNodesVars
    \/ AddSeen /\ UNCHANGED notNodesVars
    \/ AddSeenBatch /\ UNCHANGED notNodesVars
    \/ IsBlacklisted /\ UNCHANGED notNodesVars
    \/ GetNumNodesNonBlacklisted /\ UNCHANGED notNodesVars
    \/ RatingsUpdateGrowsOld /\ UNCHANGED notNodesVars

NodesSpec == Init /\ [][NodesNext]_vars

\* One peer is sent a ping or drops its connection, a day after the event
\* before.
DequePing ==
    /\ numNodesCalls < MaxDequeCalls
    /\ PingCalled(1, dateNow + 1, GOOD_PING_DURATION)

DequeDisconnect ==
    /\ numNodesCalls < MaxDequeCalls
    /\ DisconnectCalled(1, dateNow + 1)

DequeNext ==
    \/ DequePing /\ UNCHANGED notNodesVars
    \/ DequeDisconnect /\ UNCHANGED notNodesVars

DequeSpec == Init /\ [][DequeNext]_vars

\* ------------------------------------------------------------------------
\* Properties of the database.
\* ------------------------------------------------------------------------
\* The peer of the last call.
CalledPeer == CHOOSE p \in nodesOp.ipPorts : TRUE

\* The rating the metrics the peer had before the last call give at the
\* time of that call.
CurrentRating(p) == calculateRating(nodesPre.metrics[p], nodesOp.timeMs)

\* C21: isBlacklisted returns true exactly when the peer is known and the
\* rating of its metrics at the time of the call is strictly below the
\* blacklist threshold; it returns false for a peer whose rating equals
\* the threshold and for a peer the database does not know.
C21_BlacklistedBelowThreshold ==
    nodesOp.name = "isBlacklisted" =>
        nodesOp.result =
            (/\ CalledPeer \in DOMAIN nodesPre.metrics
             /\ CurrentRating(CalledPeer) < blacklistedRatingThreshold)

\* isBlacklisted was asked about a peer whose rating is the threshold.
C21_Witness ==
    /\ nodesOp.name = "isBlacklisted"
    /\ CalledPeer \in DOMAIN nodesPre.metrics
    /\ CurrentRating(CalledPeer) = blacklistedRatingThreshold
    /\ ~nodesOp.result

\* The peer has an acceptable rating in the ratings map of db.
Acceptable(db, p) == db.rating[p] >= blacklistedRatingThreshold

\* The set of the peers that are not blacklisted is the set of the peers
\* whose rating in the ratings map is not below the threshold, and every
\* peer with metrics has a rating.
NonBlacklistedFollowsRating ==
    /\ DOMAIN ipPortStringToRating = DOMAIN ipPortStringToMetrics
    /\ nonBlacklistedIpPortStrings =
           {p \in DOMAIN ipPortStringToRating : Acceptable(NodesDb, p)}

\* A peer the database knew before the last call has changed sides only
\* if the rating the call computed for it is on the other side of the
\* threshold than the rating it had.
FlipsOnlyOnCrossing ==
    \A p \in DOMAIN nodesPre.rating :
        (p \in nodesPre.nonBlacklisted) # (p \in nonBlacklistedIpPortStrings)
            => Acceptable(nodesPre, p) # Acceptable(NodesDb, p)

\* C22: with the threshold fixed, after any sequence of metric updates and
\* queries a peer is in the set getNumNodesNonBlacklisted counts exactly
\* when the rating computed for it last is not below the threshold, so its
\* status changes only in a call that computes a rating on the other side
\* of the threshold; getNumNodesNonBlacklisted returns the size of that
\* set.
C22_StatusFlipsOnCrossing ==
    /\ NonBlacklistedFollowsRating
    /\ FlipsOnlyOnCrossing
    /\ nodesOp.name = "getNumNodesNonBlacklisted" =>
           nodesOp.result = Cardinality(nonBlacklistedIpPortStrings)

\* A metric update has taken a peer that was not blacklisted below the
\* threshold.
C22_Witness ==
    /\ nodesOp.name = "addLastOutOfSyncTimeMs"
    /\ CalledPeer \in nodesPre.nonBlacklisted
    /\ CalledPeer \notin nonBlacklistedIpPortStrings
    /\ ~Acceptable(NodesDb, CalledPeer)

\* The handlers that change the metrics of one peer.
MetricEventHandlers ==
    {"addPingTimeMs", "addRecentUnintentionalDisconnectTimesMs",
     "addLastConnectTimeMs", "addLastConnectAndTestTimeMs",
     "addLastDataReceivedTimeMs", "addLastOutOfSyncTimeMs",
     "addLastInvalidChainDetectedTimeMs", "addSeen"}

\* The peer was last seen at the time of the last call, the seen time
\* index has it at that time and nowhere else, and no peer is before it in
\* the order of getMostRecentlySeenNodes.
SeenAtCall(p) ==
    /\ ipPortStringToMetrics[p].lastSeenTimeMs = nodesOp.timeMs
    /\ {s \in seenTimeToIpPortStringSet : s[2] = p} = {<<nodesOp.timeMs, p>>}
    /\ \A q \in DOMAIN ipPortStringToMetrics : ~SeenBefore(NodesDb, q, p)

\* The seen time of the peer and its place in the index are what they
\* were before the last call.
SeenAsBefore(p) ==
    /\ ipPortStringToMetrics[p].lastSeenTimeMs =
           nodesPre.metrics[p].lastSeenTimeMs
    /\ {s \in seenTimeToIpPortStringSet : s[2] = p} =
           {s \in nodesPre.seen : s[2] = p}

LastEntries(s, n) == SubSeq(s, MathMax(1, Len(s) - n + 1), Len(s))

\* C24: after any sequence of ping and disconnect events of a peer, each
\* of the three bounded lists of its metrics has at most 10 entries, and
\* they are the last 10 events of its kind, in the order they happened.
C24_ListsHoldLastTen ==
    \A p \in DOMAIN ipPortStringToMetrics :
        LET metrics == ipPortStringToMetrics[p]
        IN  /\ Len(metrics.recentPingTimes) <= 10
            /\ Len(metrics.recentUnintentionalDisconnectBeforeConnectTimesMs)
                   <= 10
            /\ Len(metrics.recentUnintentionalDisconnectAfterConnectTimesMs)
                   <= 10
            /\ metrics.recentPingTimes = LastEntries(nodesEvents[p].ping, 10)
            /\ metrics.recentUnintentionalDisconnectBeforeConnectTimesMs =
                   LastEntries(nodesEvents[p].before, 10)
            /\ metrics.recentUnintentionalDisconnectAfterConnectTimesMs =
                   LastEntries(nodesEvents[p].after, 10)

\* A peer has dropped its connection more than 10 times after connecting.
C24_Witness ==
    /\ 1 \in DOMAIN ipPortStringToMetrics
    /\ Len(nodesEvents[1].after) > 10
    /\ nodesOp.name = "addRecentUnintentionalDisconnectTimesMs"

\* ========================================================================
\* Part 6: the framing of the peer-to-peer messages
\*
\* A buffer is a sequence of bytes, a command a sequence of character
\* codes.  A frame is the magic (4 bytes), the command padded with zero
\* bytes to 12, the length of the payload as a little-endian uint32, the
\* checksum of the payload (4 bytes) and the payload.
\* ========================================================================

\* How many complete frames the buffer is given.
MaxFrames == 2

\* "ping" and a command of twelve characters, which fills its field.
Commands == {<<112, 105, 110, 103>>,
             <<103, 101, 116, 98, 108, 111, 99, 107, 116, 120, 110, 115>>}

\* Buffer.prototype.slice(start, end).
Slice(buffer, from, to) ==
    SubSeq(buffer, from + 1, MathMin(to, Len(buffer)))

\* The first four bytes of the double SHA-256 of the payload, as a digest
\* that depends on every byte of the payload and on its length.
RECURSIVE Digest(_, _)
Digest(payload, acc) ==
    IF payload = <<>> THEN acc
    ELSE Digest(Tail(payload), (acc * 31 + Head(payload) + 1) % 65536)

calculateChecksum(payload) ==
    LET d == Digest(payload, 7)
    IN  <<d % 256, d \div 256, (d * 7 + 3) % 256, (d * 13 + 5) % 256>>

\* Buffer.alloc(12) and write(command, 0, 'ascii'): one byte for each
\* character, what does not fit is left out.
commandBuffer(command) ==
    [i \in 1 .. 12 |-> IF i <= Len(command) THEN command[i] % 256 ELSE 0]

\* toString('ascii').replace(/\0+$/, ''): the high bit of every byte is
\* dropped, then the zero characters at the end.
RECURSIVE StripZeros(_)
StripZeros(chars) ==
    IF chars # <<>> /\ chars[Len(chars)] = 0
    THEN StripZeros(SubSeq(chars, 1, Len(chars) - 1))
    ELSE chars

commandString(bytes) ==
    StripZeros([i \in 1 .. Len(bytes) |-> bytes[i] % 128])

writeUInt32LE(value) ==
    <<value % 256, (value \div 256) % 256, (value \div 65536) % 256,
      (value \div 16777216) % 256>>

\* A bug: the length is read with the most significant byte first.
readUInt32BE(buffer, offset) ==
    16777216 * buffer[offset + 1] + 65536 * buffer[offset + 2]
        + 256 * buffer[offset + 3] + buffer[offset + 4]

readUInt32LE(buffer, offset) ==
    buffer[offset + 1] + 256 * buffer[offset + 2]
        + 65536 * buffer[offset + 3] + 16777216 * buffer[offset + 4]

buildMessage(magic, command, payload) ==
    magic \o commandBuffer(command) \o writeUInt32LE(Len(payload))
          \o calculateChecksum(payload) \o payload

\* The while loop of parseMessages, from offset on.
RECURSIVE parseLoop(_, _, _, _, _)
parseLoop(buffer, magic, offset, messages, errors) ==
    IF offset + 24 > Len(buffer)
    THEN [messages |-> messages, remaining |-> Slice(buffer, offset, Len(buffer)),
          errors |-> errors]
    ELSE IF Slice(buffer, offset, offset + 4) # magic
    THEN parseLoop(buffer, magic, offset + 1, messages, errors)
    ELSE LET command == commandString(Slice(buffer, offset + 4, offset + 16))
             length == readUInt32LE(buffer, offset + 16)
             payload == Slice(buffer, offset + 24, offset + 24 + length)
             checksum == Slice(buffer, offset + 20, offset + 24)
         IN  IF offset + 24 + length > Len(buffer)
             THEN [messages |-> messages,
                   remaining |-> Slice(buffer, offset, Len(buffer)),
                   errors |-> errors]
             ELSE IF calculateChecksum(payload) # checksum
             THEN parseLoop(buffer, magic, offset + 24 + length, messages,
                      Append(errors, [command |-> command,
                                      message |-> "Checksum mismatch"]))
             ELSE parseLoop(buffer, magic, offset + 24 + length,
                      Append(messages, [command |-> command,
                                        payload |-> payload]),
                      errors)

parseMessages(buffer, magic) == parseLoop(buffer, magic, 0, <<>>, <<>>)

\* The payloads a message can have: none, one byte, and the four bytes of
\* the magic the frames are built with.
Payloads == {<<>>, <<1>>, frameMagic}

\* The frame of a message is received after the complete frames before
\* it.
ReceiveFrame ==
    /\ frameTail = <<>>
    /\ Len(frameMessages) < MaxFrames
    /\ \E command \in Commands, payload \in Payloads :
           /\ frameMessages' = Append(frameMessages,
                  [command |-> command, payload |-> payload])
           /\ frameBuffer' =
                  frameBuffer \o buildMessage(frameMagic, command, payload)
    /\ frameOp' = "receive"
    /\ UNCHANGED <<frameMagic, frameTail, frameResult>>

\* The first bytes of the frame of a message are received, and not its
\* last ones.
ReceiveIncompleteFrame ==
    /\ frameTail = <<>>
    /\ \E command \in Commands, payload \in Payloads :
           LET frame == buildMessage(frameMagic, command, payload)
           IN  \E n \in 1 .. Len(frame) - 1 :
                   /\ frameTail' = SubSeq(frame, 1, n)
                   /\ frameBuffer' = frameBuffer \o SubSeq(frame, 1, n)
    /\ frameOp' = "receive"
    /\ UNCHANGED <<frameMagic, frameMessages, frameResult>>

\* parseMessages is called with what was received.
ParseMessages ==
    /\ frameOp = "receive"
    /\ frameResult' = parseMessages(frameBuffer, frameMagic)
    /\ frameOp' = "parse"
    /\ UNCHANGED <<frameMagic, frameMessages, frameTail, frameBuffer>>

notFrameVars == <<graphVars, callVars, exited, locatorVars, sessionVars,
                  clientVars, nodesVars,
                  poolEventVars,
                  workerVars,
                  saveVars,
                  syncPoolVars,
                  loopVars,
                  keepaliveVars,
                  transportVars,
                  headerVars>>

FrameNext ==
    \/ ReceiveFrame /\ UNCHANGED notFrameVars
    \/ ReceiveIncompleteFrame /\ UNCHANGED notFrameVars
    \/ ParseMessages /\ UNCHANGED notFrameVars

FrameSpec == FrameInit /\ [][FrameNext]_vars

\* C25: parseMessages, given the frames of any sequence of messages built
\* with the magic it is given, one after the other, returns those messages
\* in their order, nothing remaining and no error; when the frames are
\* followed by the first bytes of one more frame, it returns the messages
\* of the complete frames and those bytes as the remainder.
C25_ParseInvertsBuild ==
    frameOp = "parse" =>
        /\ frameResult.messages = frameMessages
        /\ frameResult.remaining = frameTail
        /\ frameResult.errors = <<>>

\* Two frames and an incomplete one whose header is complete were parsed.
C25_Witness ==
    /\ frameOp = "parse"
    /\ Len(frameMessages) = 2
    /\ Len(frameTail) >= 24
    /\ Len(frameResult.messages) = 2

\* ========================================================================
\* Part 7: the pool's handler of disconnect_unintentional_after_connect
\* ========================================================================

RECENT_UNINTENTIONAL_DISCONNECT_TIME_THRESHOLD_MS == 1000

\* How many steps the clock advances, and how many sessions disconnect.
MaxPoolTicks == 3

MaxDrops == 5

\* How many sessions are connected again.
MaxReconnects == 1

\* The sessions whose handler holds an entry in the map of event times.
Dropped == DOMAIN nodeEventTimes

\* The abort of the signal of the client has resolved a sleep whose handler
\* has not run yet: it runs before any timer or socket event.
SleepResolvedByAbort ==
    /\ clientStopAborted
    /\ \E q \in PoolPeers : handlers[q].pc = "sleeping"

\* const otherDisconnectsWhileWaitingThreshold, without the Math.max.
otherDisconnectsWhileWaitingThresholdUnclamped(numBefore) ==
    (numBefore \div 2) - 1

otherDisconnectsWhileWaitingThreshold(numBefore) ==
    MathMax(0, (numBefore \div 2) - 1)

\* const otherDisconnectsWhileWaiting.
otherDisconnectsWhileWaiting(numBefore, numAfter) ==
    numAfter + otherDisconnectsWhileWaitingThreshold(numBefore) < numBefore

\* The event: the handler runs up to its sleep.  When the client is
\* stopped it returns at once.  Sessions drop in the order of their
\* numbers: which session drops next makes no difference.
DisconnectUnintentionalAfterConnect(p) ==
    /\ handlers[p].pc = "none"
    /\ p \in poolConnected
    /\ \A q \in PoolPeers : q < p => handlers[q].pc # "none"
    /\ Cardinality({q \in PoolPeers : handlers[q].pc # "none"}) < MaxDrops
    /\ ~SleepResolvedByAbort
    /\ IF clientStopAborted
         THEN /\ handlers' = [handlers EXCEPT ![p].pc = "returned"]
              /\ poolOp' = [name |-> "returned", peer |-> 0,
                            connectedToInternet |-> FALSE, penalty |-> FALSE]
              /\ poolHistory' =
                    [poolHistory EXCEPT ![p].time = performanceNow,
                                        ![p].connected = poolConnected]
              /\ UNCHANGED <<poolConnected, nodeEventTimes>>
         ELSE /\ nodeEventTimes' =
                    [q \in Dropped \cup {p} |->
                        IF q = p THEN performanceNow ELSE nodeEventTimes[q]]
              /\ handlers' =
                    [handlers EXCEPT ![p] =
                        [pc |-> "sleeping",
                         startTimeMs |-> performanceNow,
                         nodesBefore |-> poolConnected,
                         nodesAfter |-> poolConnected,
                         wasConnectedAndTested |-> p \in poolConnected]]
              /\ poolConnected' = poolConnected \ {p}
              /\ poolHistory' =
                    [poolHistory EXCEPT ![p].time = performanceNow,
                                        ![p].connected = poolConnected]
              /\ poolOp' = [name |-> "disconnect", peer |-> 0,
                            connectedToInternet |-> FALSE, penalty |-> FALSE]
    /\ UNCHANGED <<performanceNow, clientStopAborted>>

\* abortableSleepMsNoThrow resolves, after the threshold or when the client
\* is stopped, and the handler runs to its end.  Timers of one duration
\* fire in the order they were set, and the abort listeners run in the
\* order they were added.  The connectivity check was started before the
\* sleep: it has resolved, or it is rejected by the abort of its signal and
\* caught as false, and nothing the handler reads but the signal of the
\* client changes while it is awaited.  With the penalty recorded, the
\* session is connected again and verified, or it is destroyed (it was not
\* verified, the peer is blacklisted, the connect failed or the client is
\* stopped).
SleepResolves(p, connectedToInternetAndNotAborted, reconnected) ==
    /\ handlers[p].pc = "sleeping"
    /\ \/ performanceNow >= handlers[p].startTimeMs
                              + RECENT_UNINTENTIONAL_DISCONNECT_TIME_THRESHOLD_MS
       \/ clientStopAborted
    /\ \A q \in PoolPeers : q < p => handlers[q].pc # "sleeping"
    /\ LET h == handlers[p]
           afterMs == h.startTimeMs
                        - RECENT_UNINTENTIONAL_DISCONNECT_TIME_THRESHOLD_MS
           beforeMs == h.startTimeMs
                        + RECENT_UNINTENTIONAL_DISCONNECT_TIME_THRESHOLD_MS
           nodesDisconnectedRecently ==
               {q \in Dropped : /\ nodeEventTimes[q] >= afterMs
                                /\ nodeEventTimes[q] <= beforeMs}
           nodesToRemove == {q \in Dropped : nodeEventTimes[q] < afterMs}
           nodesBefore == h.nodesBefore \cup nodesDisconnectedRecently
           nodesAfter == h.nodesAfter \ nodesDisconnectedRecently
           numBefore == Cardinality(nodesBefore \ {p})
           numAfter == Cardinality(nodesAfter \ {p})
           penalty == /\ connectedToInternetAndNotAborted
                      /\ ~otherDisconnectsWhileWaiting(numBefore, numAfter)
           reconnects == /\ reconnected
                         /\ Cardinality({q \in PoolPeers :
                               handlers[q].pc = "reconnected"}) < MaxReconnects
                         /\ h.wasConnectedAndTested
                         /\ ~clientStopAborted
                         /\ Cardinality(poolConnected) < TARGET_NUM_CONNECTIONS
       IN  /\ nodeEventTimes' =
                 [q \in Dropped \ nodesToRemove |-> nodeEventTimes[q]]
           /\ handlers' =
                 [handlers EXCEPT ![p] =
                     [NoHandler EXCEPT !.pc =
                         IF reconnects THEN "reconnected" ELSE "destroyed"]]
           /\ poolConnected' =
                 IF reconnects THEN poolConnected \cup {p} ELSE poolConnected
           /\ poolHistory' =
                 [poolHistory EXCEPT ![p].known =
                     {q \in PoolPeers : poolHistory[q].time >= 0}]
           /\ poolOp' = [name |-> "sleepResolves", peer |-> p,
                         connectedToInternet |->
                             connectedToInternetAndNotAborted,
                         penalty |-> penalty]
    /\ UNCHANGED <<performanceNow, clientStopAborted>>

\* stop() aborts the signal of the client.
ClientStopSignalAborts ==
    /\ ~clientStopAborted
    /\ clientStopAborted' = TRUE
    /\ poolOp' = [name |-> "stop", peer |-> 0, connectedToInternet |-> FALSE, penalty |-> FALSE]
    /\ UNCHANGED <<poolConnected, nodeEventTimes, handlers, performanceNow,
                   poolHistory>>

\* Time passes, by the threshold at a time.
PoolTick ==
    /\ performanceNow
         < MaxPoolTicks * RECENT_UNINTENTIONAL_DISCONNECT_TIME_THRESHOLD_MS
    /\ ~SleepResolvedByAbort
    /\ performanceNow' =
         performanceNow + RECENT_UNINTENTIONAL_DISCONNECT_TIME_THRESHOLD_MS
    /\ poolOp' = [name |-> "tick", peer |-> 0, connectedToInternet |-> FALSE, penalty |-> FALSE]
    /\ UNCHANGED <<poolConnected, nodeEventTimes, handlers,
                   clientStopAborted, poolHistory>>

notPoolEventVars == <<graphVars, callVars, exited, locatorVars, sessionVars,
                      clientVars, nodesVars, frameVars,
                      workerVars,
                      saveVars,
                      syncPoolVars,
                      loopVars,
                      keepaliveVars,
                      transportVars,
                      headerVars>>

PoolEventNext ==
    \/ \E p \in PoolPeers : DisconnectUnintentionalAfterConnect(p) /\ UNCHANGED notPoolEventVars
    \/ \E p \in PoolPeers, c, r \in BOOLEAN : SleepResolves(p, c, r) /\ UNCHANGED notPoolEventVars
    \/ ClientStopSignalAborts /\ UNCHANGED notPoolEventVars
    \/ PoolTick /\ UNCHANGED notPoolEventVars

PoolEventSpec == PoolEventInit /\ [][PoolEventNext]_vars

\* ------------------------------------------------------------------------
\* Properties of the handler
\* ------------------------------------------------------------------------

\* The last step was the end of the handler of a session.
HandlerEnded == poolOp.name = "sleepResolves"

\* The sessions that had disconnected, when the wait of p ended, within the
\* threshold of the disconnect of p (p is one of them).
DroppedInWindow(p) ==
    {q \in poolHistory[p].known :
        /\ poolHistory[q].time
             >= poolHistory[p].time
                  - RECENT_UNINTENTIONAL_DISCONNECT_TIME_THRESHOLD_MS
        /\ poolHistory[q].time
             <= poolHistory[p].time
                  + RECENT_UNINTENTIONAL_DISCONNECT_TIME_THRESHOLD_MS}

\* The other sessions that were verified before the window, and those of
\* them that have not dropped in it.
VerifiedBefore(p) ==
    (poolHistory[p].connected \cup DroppedInWindow(p)) \ {p}

Remaining(p) == VerifiedBefore(p) \ DroppedInWindow(p)

\* The sessions that disconnected at the time p did.
DroppedTogether(p) ==
    {q \in PoolPeers : poolHistory[q].time = poolHistory[p].time}

\* Five of eight verified sessions dropped together, p among them.
FiveOfEight(p) ==
    /\ Cardinality(poolHistory[p].connected \cup DroppedTogether(p))
         = TARGET_NUM_CONNECTIONS
    /\ Cardinality(DroppedTogether(p)) >= 5

TestRequests == {"connect", "ping", "onValidChain", "syncHeaders", "getAddr"}

\* The worker awaits a request of the session it tests.
InFlight(w) == workerPc[w] \in TestRequests

\* signal.aborted of the workers: the combined signal.
workerSignalAborted == localAborted \/ stopAborted

\* The pool as the handlers of the session events read and write it.
\* penalties are the pairs of a session and a metric recorded in the step.
Tested ==
    [connections |-> testedConnections, connected |-> testedConnected,
     handler |-> eventHandler, log |-> sessionLog, penalties |-> {}]

\* _nodeConnectionsConnected.size
connectedSize(P) == numConnectedBefore + Cardinality(P.connected)

\* _destroyNodeConnection
destroyTested(P, s) ==
    [P EXCEPT !.connections = @ \ {s}, !.connected = @ \ {s}]

\* The session just added to _nodeConnectionsConnected is one too many:
\* never, and as the worker finds it.
tooManyNever(P, s) == FALSE

tooMany(P, s) ==
    /\ connectedSize(P) > TARGET_NUM_CONNECTIONS
    /\ s \in P.connected

\* The handlers of out_of_sync and of invalid_blocks.
onPenaltyEvent(P, s, metric, stop) ==
    IF stop THEN P
    ELSE destroyTested(
             [P EXCEPT !.penalties = @ \cup {<<s, metric>>}], s)

\* The handlers of the two unintentional disconnects, up to their await.
onUnintentionalDisconnect(P, s, event, stop) ==
    IF stop THEN P
    ELSE [P EXCEPT !.connected = @ \ {s},
                   !.handler[s] = [pc |-> event,
                                   wasConnectedAndTested |->
                                       s \in P.connected]]

\* emit(event), with the handler of the pool for it.
emit(P, s, event, stop) ==
    CASE event = "disconnect" ->
            IF stop THEN P ELSE destroyTested(P, s)
      [] event = "out_of_sync" ->
            onPenaltyEvent(P, s, "addLastOutOfSyncTimeMs", stop)
      [] event = "invalid_blocks" ->
            onPenaltyEvent(P, s, "addLastInvalidChainDetectedTimeMs", stop)
      [] event \in {BEFORE_CONNECT, AFTER_CONNECT} ->
            onUnintentionalDisconnect(P, s, event, stop)

\* What the session emits when the signal of its pending request is
\* aborted: aborting connect() calls disconnect(), aborting any other
\* request only rejects it.
abortEventsUnintentional(request) ==
    IF request = "connect" THEN <<BEFORE_CONNECT>> ELSE <<AFTER_CONNECT>>

abortEvents(request) ==
    IF request = "connect" THEN <<"disconnect">> ELSE <<>>

\* The abort listener of the request a worker awaits on session s.
abortRequest(P, s, request, stop) ==
    IF abortEvents(request) = <<>> THEN P
    ELSE emit(P, s, abortEvents(request)[1], stop)

\* The abort of the signal of the workers: the listeners of every pending
\* request but those of worker w (which has none).
RECURSIVE abortRequests(_, _, _)
abortRequests(P, ws, stop) ==
    IF ws = {} THEN P
    ELSE LET w == CHOOSE x \in ws : TRUE
         IN  abortRequests(abortRequest(P, workerSession[w], workerPc[w],
                                        stop),
                           ws \ {w}, stop)

\* The workers whose request an abort rejects go to their catch block.
afterAbort(except) ==
    [w \in Workers |->
        IF w # except /\ InFlight(w) THEN "catch" ELSE workerPc[w]]

SetTested(P) ==
    /\ testedConnections' = P.connections
    /\ testedConnected' = P.connected
    /\ eventHandler' = P.handler
    /\ sessionLog' = P.log

\* The top of the while loop, up to the await of connect().  maxNumAttempts
\* is 3000 or more: a worker runs out of nodes first.  The workers are
\* started in the order of their numbers, each running to its first await.
LoopTop(w, nodeAvailable) ==
    /\ workerPc[w] = "loop"
    /\ \A v \in Workers :
          v < w => workerPc[v] # "loop" \/ workerSession[v] # 0
    /\ LET free == {s \in Sessions : ~sessionLog[s].created}
           s == CHOOSE x \in free : \A y \in free : x <= y
       IN  IF \/ workerSignalAborted
              \/ ~nodeAvailable
              \/ free = {}
             THEN /\ workerPc' = [workerPc EXCEPT ![w] = "returned"]
                  /\ workerOp' = [name |-> "return", session |-> 0,
                                  penalties |-> {}]
                  /\ UNCHANGED <<workerSession, testedConnections,
                                 sessionLog>>
             ELSE /\ workerPc' = [workerPc EXCEPT ![w] = "connect"]
                  /\ workerSession' = [workerSession EXCEPT ![w] = s]
                  /\ testedConnections' = testedConnections \cup {s}
                  /\ sessionLog' = [sessionLog EXCEPT ![s].created = TRUE]
                  /\ workerOp' = [name |-> "connect", session |-> s,
                                  penalties |-> {}]
    /\ UNCHANGED <<testedConnected, numConnectedBefore, eventHandler,
                   localAborted, stopAborted>>

\* The transport of the session is open: its peer can answer, and it can
\* fail.
Open(s) ==
    /\ s \in testedConnections
    /\ ~sessionLog[s].failed

\* The peer answers the request the worker awaits, and the worker runs to
\* its next await.  answer is what the headers of the peer are found to
\* be; more is requestMoreNodes.
RequestResolves(w, answer, more) ==
    /\ InFlight(w)
    /\ Open(workerSession[w])
    /\ LET s == workerSession[w]
           request == workerPc[w]
           failed == [Tested EXCEPT !.log[s].failed = TRUE]
           P == CASE request = "onValidChain" /\ answer = "invalid" ->
                        emit(failed, s, "invalid_blocks", stopAborted)
                  [] request = "syncHeaders" /\ answer = "invalid" ->
                        emit(failed, s, "invalid_blocks", stopAborted)
                  [] request = "syncHeaders" /\ answer = "outOfSync" ->
                        emit(failed, s, "out_of_sync", stopAborted)
                  [] OTHER -> Tested
           tested == \/ request = "getAddr"
                     \/ request = "syncHeaders" /\ ~more
           pc == CASE request = "connect" -> "ping"
                   [] request = "ping" -> "onValidChain"
                   [] request = "onValidChain" ->
                         IF answer = "invalid" THEN "catch"
                                               ELSE "syncHeaders"
                   [] request = "syncHeaders" ->
                         IF more
                           THEN IF s \in P.connections THEN "getAddr"
                                                       ELSE "catch"
                           ELSE "installed"
                   [] request = "getAddr" -> "installed"
       IN  /\ request \in {"connect", "ping", "getAddr"} => answer = "valid"
           /\ request # "syncHeaders" => ~more
           /\ SetTested(IF tested
                        THEN [P EXCEPT !.connected = @ \cup {s}]
                        ELSE P)
           /\ workerPc' = [workerPc EXCEPT ![w] = pc]
           /\ workerOp' = [name |-> request, session |-> s,
                           penalties |-> P.penalties]
    /\ UNCHANGED <<workerSession, numConnectedBefore,
                   localAborted, stopAborted>>

\* A timer of the session fires, or its transport closes or errors: the
\* session emits the unintentional disconnect and rejects what is pending.
PeerFailure(s) ==
    /\ Open(s)
    /\ \/ \E w \in Workers : InFlight(w) /\ workerSession[w] = s
       \/ s \in testedConnected
    /\ LET connecting == \E w \in Workers :
                            workerPc[w] = "connect" /\ workerSession[w] = s
           event == IF connecting THEN BEFORE_CONNECT ELSE AFTER_CONNECT
           P == emit([Tested EXCEPT !.log[s].failed = TRUE], s, event,
                     stopAborted)
       IN  /\ SetTested(P)
           /\ workerOp' = [name |-> "peerFailure", session |-> s,
                           penalties |-> P.penalties]
    /\ workerPc' = [w \in Workers |->
                      IF InFlight(w) /\ workerSession[w] = s
                        THEN "catch" ELSE workerPc[w]]
    /\ UNCHANGED <<workerSession, numConnectedBefore,
                   localAborted, stopAborted>>

\* The worker resumes after _connectAndTestNode: onTargetReached, then the
\* session is destroyed if it is one too many.
InstallResumes(w) ==
    /\ workerPc[w] = "installed"
    /\ LET s == workerSession[w]
           targetReached == connectedSize(Tested) >= TARGET_NUM_CONNECTIONS
           aborts == targetReached /\ ~workerSignalAborted
           P == IF aborts
                  THEN abortRequests(Tested,
                                     {v \in Workers \ {w} : InFlight(v)},
                                     stopAborted)
                  ELSE Tested
       IN  /\ localAborted' = (localAborted \/ targetReached)
           /\ SetTested(IF tooMany(P, s) THEN destroyTested(P, s) ELSE P)
           /\ workerPc' =
                 [(IF aborts THEN afterAbort(w) ELSE workerPc) EXCEPT ![w] =
                     IF tooMany(P, s) \/ targetReached \/ workerSignalAborted
                       THEN "returned" ELSE "loop"]
           /\ workerOp' = [name |-> IF tooMany(P, s) THEN "tooMany"
                                    ELSE IF aborts THEN "targetReached"
                                    ELSE "installed",
                           session |-> s, penalties |-> P.penalties]
    /\ UNCHANGED <<workerSession, numConnectedBefore, stopAborted>>

\* The catch block of the worker, after its await of the connectivity
\* check: the session is destroyed when the signal is aborted, and left to
\* its event handlers when it is not.
WorkerCatch(w) ==
    /\ workerPc[w] = "catch"
    /\ IF workerSignalAborted
         THEN /\ SetTested(destroyTested(Tested, workerSession[w]))
              /\ workerPc' = [workerPc EXCEPT ![w] = "returned"]
         ELSE /\ workerPc' = [workerPc EXCEPT ![w] = "loop"]
              /\ UNCHANGED <<testedConnections, testedConnected,
                             eventHandler, sessionLog>>
    /\ workerOp' = [name |-> IF workerSignalAborted THEN "catchAborted"
                                                     ELSE "catch",
                    session |-> workerSession[w], penalties |-> {}]
    /\ UNCHANGED <<workerSession, numConnectedBefore,
                   localAborted, stopAborted>>

\* The handler of an unintentional disconnect resumes after its awaits and
\* runs to its end or to the await of the reconnect.  The connectivity
\* check of the before-connect handler is awaited with the signal of the
\* client; that of the after-connect handler may have resolved before the
\* client was stopped.
HandlerResumes(s, connectedToInternet, otherDisconnects, reconnects) ==
    /\ eventHandler[s].pc \in {BEFORE_CONNECT, AFTER_CONNECT}
    /\ eventHandler[s].pc = BEFORE_CONNECT =>
          /\ stopAborted => ~connectedToInternet
          /\ ~otherDisconnects
          /\ ~reconnects
    /\ LET h == eventHandler[s]
           penalty == connectedToInternet /\ ~otherDisconnects
           P1 == IF penalty
                   THEN [Tested EXCEPT !.penalties = @ \cup
                            {<<s, "addRecentUnintentionalDisconnectTimesMs">>}]
                   ELSE Tested
           reconnect == /\ h.pc = AFTER_CONNECT
                        /\ h.wasConnectedAndTested
                        /\ ~stopAborted
                        /\ reconnects
                        /\ connectedSize(P1) < TARGET_NUM_CONNECTIONS
           P2 == IF reconnect
                   THEN [P1 EXCEPT !.handler[s].pc = "reconnecting"]
                   ELSE destroyTested(
                            [P1 EXCEPT !.handler[s].pc = "none"], s)
       IN  /\ SetTested(P2)
           /\ workerOp' = [name |-> "handler", session |-> s,
                           penalties |-> P1.penalties]
    /\ UNCHANGED <<workerPc, workerSession, numConnectedBefore,
                   localAborted, stopAborted>>

\* The reconnect of the after-connect handler ends: the session is verified
\* again, and destroyed if it is one too many or the reconnect failed.
ReconnectResolves(s, ok) ==
    /\ eventHandler[s].pc = "reconnecting"
    /\ stopAborted => ~ok
    /\ LET P0 == [Tested EXCEPT !.handler[s].pc = "none"]
           P1 == [P0 EXCEPT !.connected = @ \cup {s}]
       IN  /\ SetTested(IF ok /\ ~tooMany(P1, s)
                        THEN P1
                        ELSE destroyTested(P0, s))
           /\ workerOp' =
                 [name |-> IF ok /\ tooMany(P1, s)
                             THEN "tooMany" ELSE "reconnect",
                  session |-> s, penalties |-> {}]
    /\ UNCHANGED <<workerPc, workerSession, numConnectedBefore,
                   localAborted, stopAborted>>

\* stop() aborts the signal of the client: every pending request of a
\* worker is rejected.
WorkerClientStop ==
    /\ ~stopAborted
    /\ stopAborted' = TRUE
    /\ LET P == abortRequests(Tested, {v \in Workers : InFlight(v)}, TRUE)
       IN  /\ SetTested(P)
           /\ workerOp' = [name |-> "stop", session |-> 0,
                           penalties |-> P.penalties]
    /\ workerPc' = afterAbort(0)
    /\ UNCHANGED <<workerSession, numConnectedBefore,
                   localAborted>>

notWorkerVars == <<graphVars, callVars, exited, locatorVars, sessionVars,
                   clientVars, nodesVars, frameVars, poolEventVars,
                   saveVars,
                   syncPoolVars,
                   loopVars,
                   keepaliveVars,
                   transportVars,
                   headerVars>>

WorkerNext ==
    \/ \E w \in Workers, n \in BOOLEAN : LoopTop(w, n) /\ UNCHANGED notWorkerVars
    \/ \E w \in Workers, a \in {"valid", "invalid", "outOfSync"}, m \in BOOLEAN : RequestResolves(w, a, m) /\ UNCHANGED notWorkerVars
    \/ \E s \in Sessions : PeerFailure(s) /\ UNCHANGED notWorkerVars
    \/ \E w \in Workers : InstallResumes(w) /\ UNCHANGED notWorkerVars
    \/ \E w \in Workers : WorkerCatch(w) /\ UNCHANGED notWorkerVars
    \/ \E s \in Sessions, c, o, r \in BOOLEAN : HandlerResumes(s, c, o, r) /\ UNCHANGED notWorkerVars
    \/ \E s \in Sessions, ok \in BOOLEAN : ReconnectResolves(s, ok) /\ UNCHANGED notWorkerVars
    \/ WorkerClientStop /\ UNCHANGED notWorkerVars

WorkerSpec == WorkerInit /\ [][WorkerNext]_vars

\* ------------------------------------------------------------------------
\* Properties of the workers
\* ------------------------------------------------------------------------

\* The last step was a cancellation (the client stopped, or a worker
\* reached the target and aborted the others), or the catch block of a
\* worker whose signal is aborted.
CancellationStep ==
    workerOp.name \in {"stop", "targetReached", "tooMany", "catchAborted"}

\* C27: a cancellation records no penalty, and every penalty that is
\* recorded (an unintentional disconnect, out of sync, an invalid chain) is
\* for a session that its peer or its transport has failed.
C27_CancellationNeverPenalises ==
    /\ CancellationStep => workerOp.penalties = {}
    /\ \A penalty \in workerOp.penalties : sessionLog[penalty[1]].failed

\* A worker reached the target, the request of another worker was
\* cancelled, and that worker has destroyed its session, which had not
\* failed; the client is running.
C27_Witness ==
    /\ workerOp.name = "catchAborted"
    /\ localAborted
    /\ ~stopAborted
    /\ sessionLog[workerOp.session].created
    /\ ~sessionLog[workerOp.session].failed
    /\ workerOp.session \notin testedConnections
    /\ workerOp.penalties = {}

\* No worker is between adding its session to _nodeConnectionsConnected and
\* the check that follows.
NoInstallPending == \A w \in Workers : workerPc[w] # "installed"

\* _connectToNodes launches this many workers.
NUM_WORKERS == 2 * TARGET_NUM_CONNECTIONS

\* C30: the workers are at most NUM_WORKERS; when none of them is in the
\* middle of an install, at most TARGET_NUM_CONNECTIONS sessions are
\* verified; a session found to be one too many is destroyed.
C30_AtMostTargetVerified ==
    /\ Cardinality(Workers) <= NUM_WORKERS
    /\ NoInstallPending =>
          connectedSize(Tested) <= TARGET_NUM_CONNECTIONS
    /\ workerOp.name = "tooMany" =>
          /\ workerOp.session \notin testedConnected
          /\ workerOp.session \notin testedConnections

\* Two workers had installed a session each, one more than the target: the
\* first to resume has destroyed its session, and the target is held.
C30_Witness ==
    /\ workerOp.name = "tooMany"
    /\ connectedSize(Tested) = TARGET_NUM_CONNECTIONS
    /\ testedConnected # {}
    /\ NoInstallPending

\* ========================================================================
\* Part 9: BlockHeadersDatabase, saving the changes of the longest chain
\* ========================================================================

\* Number of addHeaders calls that change the longest chain.
MaxSaves == 3

\* Batches as a peer sends them: each header follows its parent, and the
\* first follows a header of an earlier batch.
SaveBatches == {<<1>>, <<1, 2>>, <<2>>, <<3>>, <<4, 7>>, <<1, 2, 5, 6>>}

\* The headers of an AddHeadersChanges as the objects the queue holds:
\* their height was set by _insert and is not set again.
headerObjects(all, hashes) ==
    [i \in 1 .. Len(hashes) |->
        [hashHex |-> hashes[i], height |-> all[hashes[i]].height]]

\* createLevelDbBatchArray: a del for the height of every header removed,
\* then a put at the height of every header added.  The buffer saved is
\* written as the hash it has.
createLevelDbBatchArray(headersRemoved, headersAdded) ==
    [i \in 1 .. Len(headersRemoved) |->
        [type |-> "del", key |-> headersRemoved[i].height, value |-> -1]]
    \o [i \in 1 .. Len(headersAdded) |->
          [type |-> "put", key |-> headersAdded[i].height,
           value |-> headersAdded[i].hashHex]]

\* Level.batch: the operations in array order, all of them or none.
RECURSIVE levelDbBatch(_, _, _)
levelDbBatch(db, ops, i) ==
    IF i > Len(ops) THEN db
    ELSE levelDbBatch(IF ops[i].type = "del"
                      THEN MapDeleteAll(db, {ops[i].key})
                      ELSE MapSet(db, ops[i].key, ops[i].value),
                      ops, i + 1)

\* Array.prototype.unshift in the place of push.
saveQueueUnshift(queue, c) == <<c>> \o queue

\* this._addHeadersChangesLevelDbSaveQueue.push(addHeadersChanges)
saveQueuePush(queue, c) == Append(queue, c)

\* What fromDatabase reads back as the longest chain: heights 1 .. size.
storedChain(db) == [i \in 1 .. Cardinality(DOMAIN db) |-> db[i]]

\* addHeaders with the queueing of its changes: a .then link is added to
\* _levelDbHeadersSaveQueue when the longest chain changed.
AddHeadersSaved ==
    /\ Len(saveAccepted) < MaxSaves
    /\ \E headers \in SaveBatches :
         /\ addHeaders(headers, "addHeaders")
         /\ LET r == insert(Graph, headers)
                c == [headersRemovedFromLongestChain |->
                        headerObjects(r.g.all,
                          r.changes.headersRemovedFromLongestChain),
                      headersAddedToLongestChain |->
                        headerObjects(r.g.all,
                          r.changes.headersAddedToLongestChain)]
                changed ==
                    \/ Len(c.headersRemovedFromLongestChain) > 0
                    \/ Len(c.headersAddedToLongestChain) > 0
            IN /\ levelDbHeadersSaveQueue' =
                    IF changed THEN Append(levelDbHeadersSaveQueue, c)
                    ELSE levelDbHeadersSaveQueue
               /\ saveAccepted' =
                    IF changed THEN Append(saveAccepted, c)
                    ELSE saveAccepted
    /\ saveOp' = [name |-> "addHeaders", levelDbHeaders |-> levelDbHeaders,
                  graph |-> Graph,
                  logged |-> saveLogged]
    /\ UNCHANGED <<levelDbHeaders, addHeadersChangesLevelDbSaveQueue,
                   saveWriting, saveWritten, saveLogged>>

\* The first link of the queue runs: it pushes its changes and calls
\* batch() for the first element of the array.
SaveLinkRuns ==
    /\ ~exited
    /\ ~saveWriting
    /\ levelDbHeadersSaveQueue # <<>>
    /\ addHeadersChangesLevelDbSaveQueue' =
         saveQueuePush(addHeadersChangesLevelDbSaveQueue,
                       Head(levelDbHeadersSaveQueue))
    /\ saveWriting' = TRUE
    /\ saveOp' = [name |-> "link", levelDbHeaders |-> levelDbHeaders,
                  graph |-> Graph,
                  logged |-> saveLogged]
    /\ UNCHANGED <<levelDbHeaders, levelDbHeadersSaveQueue, saveAccepted,
                   saveWritten, saveLogged>>
    /\ UNCHANGED <<graphVars, callVars, exited>>

\* batch() settles.  Resolved: the element is shifted off and the loop goes
\* on with the next, or the link ends.  Rejected: the link ends in its
\* catch, which logs the error; the array keeps the element.
SaveBatchSettles(resolved) ==
    /\ ~exited
    /\ saveWriting
    /\ LET nextAddHeadersChanges == addHeadersChangesLevelDbSaveQueue[1] IN
       IF resolved
       THEN /\ levelDbHeaders' =
                 levelDbBatch(levelDbHeaders,
                   createLevelDbBatchArray(
                     nextAddHeadersChanges.headersRemovedFromLongestChain,
                     nextAddHeadersChanges.headersAddedToLongestChain), 1)
            /\ addHeadersChangesLevelDbSaveQueue' =
                 Tail(addHeadersChangesLevelDbSaveQueue)
            /\ saveWritten' = Append(saveWritten, nextAddHeadersChanges)
            /\ saveWriting' = (Len(addHeadersChangesLevelDbSaveQueue) > 1)
            /\ levelDbHeadersSaveQueue' =
                 IF Len(addHeadersChangesLevelDbSaveQueue) > 1
                 THEN levelDbHeadersSaveQueue
                 ELSE Tail(levelDbHeadersSaveQueue)
            /\ saveLogged' = saveLogged
       ELSE /\ saveLogged' = saveLogged + 1
            /\ levelDbHeadersSaveQueue' = Tail(levelDbHeadersSaveQueue)
            /\ saveWriting' = FALSE
            /\ UNCHANGED <<levelDbHeaders, addHeadersChangesLevelDbSaveQueue,
                           saveWritten>>
    /\ saveOp' = [name |-> IF resolved THEN "written" ELSE "failed",
                  levelDbHeaders |-> levelDbHeaders, graph |-> Graph,
                  logged |-> saveLogged]
    /\ UNCHANGED saveAccepted
    /\ UNCHANGED <<graphVars, callVars, exited>>

notSaveVars == <<locatorVars, sessionVars, clientVars, nodesVars, frameVars,
                 poolEventVars, workerVars,
                 syncPoolVars,
                 loopVars,
                 keepaliveVars,
                 transportVars,
                 headerVars>>

SaveNext ==
    \/ AddHeadersSaved /\ UNCHANGED notSaveVars
    \/ SaveLinkRuns /\ UNCHANGED notSaveVars
    \/ SaveBatchSettles(TRUE) /\ UNCHANGED notSaveVars
    \/ SaveBatchSettles(FALSE) /\ UNCHANGED notSaveVars

SaveSpec == Init /\ [][SaveNext]_vars

\* ------------------------------------------------------------------------
\* Properties of Part 9
\* ------------------------------------------------------------------------

\* s is an initial segment of t.
IsPrefix(s, t) == Len(s) <= Len(t) /\ s = SubSeq(t, 1, Len(s))

\* The changes of the call whose result the caller holds did change the
\* longest chain.
ChainChanged ==
    \/ Len(changes.headersRemovedFromLongestChain) > 0
    \/ Len(changes.headersAddedToLongestChain) > 0

\* The longest chain as the changes returned say it is.
ChainAfterChanges ==
    SubSeq(before.sorted, 1,
           Len(before.sorted) - Len(changes.headersRemovedFromLongestChain))
    \o changes.headersAddedToLongestChain

\* C28: when addHeaders returns with changes to the longest chain, the
\* graph in memory holds them while the store is as it was and the changes
\* wait to be written; the changes written are, in the order written, the
\* changes accepted in the order accepted, none left out, with at most one
\* write under way; a write that fails is logged once and leaves the graph,
\* the store and the waiting changes as they were; and once nothing waits,
\* the store holds the longest chain, height by height.
C28_MemoryFirstWritesInOrder ==
    /\ (saveOp.name = "addHeaders" /\ ChainChanged /\ ~exited) =>
          /\ sortedHeaders = ChainAfterChanges
          /\ levelDbHeaders = saveOp.levelDbHeaders
          /\ Len(saveWritten) < Len(saveAccepted)
          /\ levelDbHeadersSaveQueue # <<>>
    /\ IsPrefix(saveWritten, saveAccepted)
    /\ saveWriting => /\ addHeadersChangesLevelDbSaveQueue # <<>>
                      /\ levelDbHeadersSaveQueue # <<>>
    /\ saveWritten \o addHeadersChangesLevelDbSaveQueue
         \o (IF saveWriting THEN Tail(levelDbHeadersSaveQueue)
             ELSE levelDbHeadersSaveQueue) = saveAccepted
    /\ saveOp.name = "failed" =>
          /\ Graph = saveOp.graph
          /\ levelDbHeaders = saveOp.levelDbHeaders
          /\ saveLogged = saveOp.logged + 1
          /\ addHeadersChangesLevelDbSaveQueue # <<>>
    /\ (saveWritten = saveAccepted /\ ~exited) =>
          storedChain(levelDbHeaders) = Tail(sortedHeaders)

\* A write failed and was logged; the next link wrote its changes after
\* those of the failed one, among them a reorganisation; and a third batch
\* has just been accepted, not yet written.
C28_Witness ==
    /\ saveOp.name = "addHeaders"
    /\ ChainChanged
    /\ saveLogged >= 1
    /\ Len(saveWritten) = 2
    /\ Len(saveAccepted) = 3
    /\ Len(saveWritten[2].headersRemovedFromLongestChain) > 0
    /\ levelDbHeaders # <<>>
    /\ storedChain(levelDbHeaders) # Tail(sortedHeaders)

\* ========================================================================
\* Part 10: BlockHeadersClient, header syncs of the pool and pruneBranches
\* ========================================================================

\* Links chained on the _syncHeadersQueue of one session.
MaxSyncLinks == 3

\* inv messages with block hashes in one 'data' event of a socket.
MaxInvs == 2

\* The sessions whose _syncingHeaders is true.
syncingSessions(queue) == {s \in SyncPeers : queue[s] # <<>>}

\* n calls of syncHeaders on session s in one turn of the event loop, as
\* the links they chain.  A call that finds _syncingHeaders true chains
\* nothing; the then callback that sets _syncingHeaders runs after the
\* turn, so every call of a turn that finds it false chains a link.  On a
\* rejected queue the callback of a link is skipped.
chainedLinks(s, n) ==
    IF syncHeadersQueues[s] # <<>> \/ syncQueueRejected[s] THEN <<>>
    ELSE [i \in 1 .. n |-> syncNextLink[s] + i]

\* The link whose promise the i-th of these calls returns; 0 when the
\* promise is rejected by the time the turn's microtasks have run.
awaitedLink(s, i) ==
    IF syncQueueRejected[s] THEN 0
    ELSE IF syncHeadersQueues[s] # <<>> THEN Last(syncHeadersQueues[s])
    ELSE syncNextLink[s] + i

\* if (!this._nodesSyncingHeaders.size) pruneBranches(): the number of
\* calls made by so many continuations, and the sessions that run a loop
\* when they are made.
pruneIfNoneSyncing(name, set, queue, continuations) ==
    IF set = {} /\ continuations > 0
    THEN [name |-> name, prunes |-> continuations,
          syncing |-> syncingSessions(queue)]
    ELSE [name |-> name, prunes |-> 0, syncing |-> {}]

\* _connectAndTestNode reaches its syncHeaders for a session not yet
\* verified.
InitialVerify(s) ==
    /\ s \notin syncConnected
    /\ ~\E c \in syncCallers : c.kind = "verify" /\ c.session = s
    /\ syncNextLink[s] < MaxSyncLinks
    /\ LET links == chainedLinks(s, 1)
           link == awaitedLink(s, 1)
       IN /\ syncHeadersQueues' =
               [syncHeadersQueues EXCEPT ![s] = @ \o links]
          /\ syncNextLink' = [syncNextLink EXCEPT ![s] = @ + Len(links)]
          /\ IF link = 0
             THEN \* add, rejection, delete, and the worker's catch
                  /\ nodesSyncingHeaders' = nodesSyncingHeaders \ {s}
                  /\ syncCallers' = syncCallers
             ELSE /\ nodesSyncingHeaders' = nodesSyncingHeaders \cup {s}
                  /\ syncCallers' = syncCallers \cup
                       {[kind |-> "verify", session |-> s,
                         awaits |-> {<<s, link>>}]}
    /\ syncOp' = [name |-> "verify", prunes |-> 0, syncing |-> {}]
    /\ UNCHANGED <<syncQueueRejected, syncConnected>>

\* A 'data' event of session s carries n inv messages that announce blocks
\* other than the tip: the block_hashes handler runs n times in that turn.
BlockHashes(s, n) ==
    /\ syncNextLink[s] + n <= MaxSyncLinks
    /\ LET links == chainedLinks(s, n) IN
       /\ syncHeadersQueues' = [syncHeadersQueues EXCEPT ![s] = @ \o links]
       /\ syncNextLink' = [syncNextLink EXCEPT ![s] = @ + Len(links)]
       /\ IF syncQueueRejected[s]
          THEN /\ nodesSyncingHeaders' = nodesSyncingHeaders \ {s}
               /\ syncCallers' = syncCallers
               /\ syncOp' = pruneIfNoneSyncing("block_hashes",
                               nodesSyncingHeaders \ {s},
                               syncHeadersQueues, n)
          ELSE /\ nodesSyncingHeaders' = nodesSyncingHeaders \cup {s}
               /\ syncCallers' = syncCallers \cup
                    {[kind |-> "block_hashes", session |-> s,
                      awaits |-> {<<s, awaitedLink(s, i)>>}] :
                        i \in 1 .. n}
               /\ syncOp' = [name |-> "block_hashes", prunes |-> 0,
                             syncing |-> {}]
    /\ UNCHANGED <<syncQueueRejected, syncConnected>>

\* The health monitor calls syncHeaders on every verified session and
\* awaits them all.
MonitorSync ==
    /\ syncConnected # {}
    /\ ~\E c \in syncCallers : c.kind = "monitor"
    /\ \A s \in syncConnected : syncNextLink[s] < MaxSyncLinks
    /\ LET waits == {<<s, awaitedLink(s, 1)>> :
                       s \in {t \in syncConnected : ~syncQueueRejected[t]}}
           set == (nodesSyncingHeaders \cup syncConnected)
                    \ {t \in syncConnected : syncQueueRejected[t]}
       IN /\ syncHeadersQueues' =
               [s \in SyncPeers |->
                  IF s \in syncConnected
                  THEN syncHeadersQueues[s] \o chainedLinks(s, 1)
                  ELSE syncHeadersQueues[s]]
          /\ syncNextLink' =
               [s \in SyncPeers |->
                  IF s \in syncConnected
                  THEN syncNextLink[s] + Len(chainedLinks(s, 1))
                  ELSE syncNextLink[s]]
          /\ nodesSyncingHeaders' = set
          /\ IF waits = {}
             THEN /\ syncCallers' = syncCallers
                  /\ syncOp' = pruneIfNoneSyncing("monitor", set,
                                  syncHeadersQueues, 1)
             ELSE /\ syncCallers' = syncCallers \cup
                       {[kind |-> "monitor", session |-> 0,
                         awaits |-> waits]}
                  /\ syncOp' = [name |-> "monitor", prunes |-> 0,
                                syncing |-> {}]
    /\ UNCHANGED <<syncQueueRejected, syncConnected>>

\* The loop of session s ends, by returning or by throwing, and the
\* microtasks that follow run: the next link of its queue starts its loop
\* (after a throw every link chained behind is skipped), then the finally
\* of every call that awaited a settled link deletes the key, then those
\* calls go on: block_hashes handlers and a monitor with nothing left to
\* await prune if the set is empty, a worker goes on to verify.
LoopEnds(s, threw) ==
    /\ syncHeadersQueues[s] # <<>>
    /\ LET settledLinks == IF threw
                      THEN {<<s, l>> : l \in Range(syncHeadersQueues[s])}
                      ELSE {<<s, Head(syncHeadersQueues[s])>>}
           queue == [syncHeadersQueues EXCEPT
                       ![s] = IF threw THEN <<>> ELSE Tail(@)]
           woken == {c \in syncCallers : c.awaits \cap settledLinks # {}}
           done == {c \in woken : c.awaits \subseteq settledLinks}
           set == IF woken = {} THEN nodesSyncingHeaders
                  ELSE nodesSyncingHeaders \ {s}
       IN /\ syncHeadersQueues' = queue
          /\ syncQueueRejected' =
               [syncQueueRejected EXCEPT ![s] = @ \/ threw]
          /\ nodesSyncingHeaders' = set
          /\ syncCallers' =
               {[c EXCEPT !.awaits = @ \ settledLinks] :
                  c \in syncCallers \ done}
          /\ syncConnected' =
               IF ~threw /\ \E c \in done : c.kind = "verify"
               THEN syncConnected \cup {s}
               ELSE syncConnected
          /\ syncOp' = pruneIfNoneSyncing(
                          IF threw THEN "threw" ELSE "returned", set, queue,
                          Cardinality({c \in done : c.kind # "verify"}))
    /\ UNCHANGED syncNextLink

notSyncPoolVars == <<graphVars, callVars, exited, locatorVars, sessionVars,
                     clientVars, nodesVars, frameVars, poolEventVars,
                     workerVars, saveVars,
                     loopVars,
                     keepaliveVars,
                     transportVars,
                     headerVars>>

SyncPoolNext ==
    \/ (\E s \in SyncPeers : InitialVerify(s)) /\ UNCHANGED notSyncPoolVars
    \/ (\E s \in SyncPeers : \E n \in 1 .. MaxInvs : BlockHashes(s, n)) /\ UNCHANGED notSyncPoolVars
    \/ MonitorSync /\ UNCHANGED notSyncPoolVars
    \/ (\E s \in SyncPeers : LoopEnds(s, FALSE)) /\ UNCHANGED notSyncPoolVars
    \/ (\E s \in SyncPeers : LoopEnds(s, TRUE)) /\ UNCHANGED notSyncPoolVars

SyncPoolSpec == Init /\ [][SyncPoolNext]_vars

\* ------------------------------------------------------------------------
\* Properties of Part 10
\* ------------------------------------------------------------------------

\* C29: whenever pruneBranches is called, no session is running its
\* header-sync loop.
C29_PruneOnlyWhenNoSync ==
    syncOp.prunes > 0 => syncOp.syncing = {}

\* ========================================================================
\* Part 11: LegacyNodeConnection._syncHeaders, the loop and its events
\* ========================================================================

\* A node is out of sync when it is more than this many blocks behind.
OUT_OF_SYNC_BLOCKS == 100

\* A node waits when it is more than this many downloads behind the tip.
SLOW_ITERATIONS == 4

\* The database as the loop reads it, either the graph of Part 1 or the
\* tall chain defined below (one longest chain whose header at height h has
\* hash h, and fork headers of hash -h beside it).
graphDb(g) == [tall |-> FALSE, g |-> g, tipHeight |-> 0, forks |-> {}]

tallDb(tipHeight, forks) ==
    [tall |-> TRUE, g |-> <<>>, tipHeight |-> tipHeight, forks |-> forks]

\* Height of a header of the tall chain, in the database or not.
tallHeight(hashHex) == IF hashHex < 0 THEN -hashHex ELSE hashHex

\* getHeaderTip().hashHex and getHeaderTip().height
dbTipHash(db) == IF db.tall THEN db.tipHeight ELSE Last(db.g.sorted)

dbTipHeight(db) ==
    IF db.tall THEN db.tipHeight ELSE db.g.all[Last(db.g.sorted)].height

\* getHeaderFromHashHex(hashHex) is a header, and its height.
dbHas(db, hashHex) ==
    IF db.tall
    THEN hashHex \in (0 .. db.tipHeight) \cup db.forks
    ELSE hashHex \in DOMAIN db.g.all

dbHeight(db, hashHex) ==
    IF db.tall THEN tallHeight(hashHex) ELSE db.g.all[hashHex].height

\* getHeaderFromHeight(height) is a header, and its hash.
dbHasHeight(db, height) ==
    IF db.tall THEN height \in 0 .. db.tipHeight
    ELSE height \in 0 .. Len(db.g.sorted) - 1

dbHashAt(db, height) == IF db.tall THEN height ELSE db.g.sorted[height + 1]

Event(name, height, hashHex, headers) ==
    [name |-> name, height |-> height, hashHex |-> hashHex,
     headers |-> headers]

\* getHeaderFromHashHex(hashHex)?.height || 0
heightOrZero(db, hashHex) ==
    IF dbHas(db, hashHex) THEN dbHeight(db, hashHex) ELSE 0

\* nodeTipHeight + 100 < chainTipHeight
isOutOfSync(nodeTipHeight, chainTipHeight) ==
    nodeTipHeight + OUT_OF_SYNC_BLOCKS < chainTipHeight

\* The branch of the loop for an empty headers message.
noHeadersDownloaded(l, db) ==
    IF /\ l.tipHashHex # dbTipHash(db)
       /\ l.tipHashHex # l.startingTipHashHex
       /\ isOutOfSync(heightOrZero(db, l.tipHashHex), dbTipHeight(db))
    THEN <<Event("out_of_sync", 0, 0, <<>>)>>
    ELSE NoEvents

\* The guard without its test of waitedForOtherNodeToSync.
slowPeerGuardAgain(l, db, heightDownloaded, numHeaders) ==
    /\ heightDownloaded + numHeaders * SLOW_ITERATIONS < dbTipHeight(db)
    /\ dbHashAt(db, heightDownloaded) = l.tipHashHex

\* heightDownloaded + headers.length * 4 < heightChainTip &&
\* downloadedTipInLongestChain && !waitedForOtherNodeToSync
slowPeerGuard(l, db, heightDownloaded, numHeaders) ==
    /\ heightDownloaded + numHeaders * SLOW_ITERATIONS < dbTipHeight(db)
    /\ dbHashAt(db, heightDownloaded) = l.tipHashHex
    /\ ~l.waitedForOtherNodeToSync

\* if (nAdded > 0) emit('new_chain_tip', heightDownloaded, last hashHex)
newChainTipEvents(nAdded, heightDownloaded, headers) ==
    IF nAdded > 0
    THEN <<Event("new_chain_tip", heightDownloaded, Last(headers), <<>>)>>
    ELSE NoEvents

\* The branch for invalidated headers, going on with the loop.
invalidBlocksDownloadedContinue(l, result) ==
    [session |-> l,
     events |-> <<Event("invalid_blocks", 0, 0,
                        result.headersInvalidated)>>,
     next |-> "getHeaders"]

\* if (nInvalid > 0) { emit('invalid_blocks', headersInvalidated); break }
invalidBlocksDownloaded(l, result) ==
    [session |-> l,
     events |-> <<Event("invalid_blocks", 0, 0,
                        result.headersInvalidated)>>,
     next |-> "break"]

\* The wait is over: waitedForOtherNodeToSync = true, from is the block
\* locator again and _tipHashHex is reset.
afterSlowPeerWait(l) ==
    [l EXCEPT !.waitedForOtherNodeToSync = TRUE,
              !.fromLocator = TRUE,
              !.tipHashHex = l.startingTipHashHex]

\* One turn of the loop from the point where getHeaders resolved with
\* headers (the signal is not aborted); db is the database and result the
\* AddHeadersChanges after addHeaders(headers).  next is "break", "throw",
\* "getHeaders" (the next turn), "sleep" (the loop sleeps 500 ms) or
\* "reset" (the wait ended without a sleep, then the next turn).
syncHeadersIteration(l, headers, db0, db, result, timeSince) ==
    IF Len(headers) = 0
    THEN [session |-> l, events |-> noHeadersDownloaded(l, db0),
          next |-> "break"]
    ELSE
    LET lastTipHashHex == l.tipHashHex
        l1 == [l EXCEPT !.fromLocator = FALSE,
                        !.tipHashHex = Last(headers)]
        nInvalid == Len(result.headersInvalidated)
        nAdded == Len(result.headersAddedToLongestChain)
    IN
    IF nInvalid > 0
    THEN invalidBlocksDownloaded(l1, result)
    ELSE IF ~dbHas(db, l1.tipHashHex)
    THEN [session |-> l1, events |-> NoEvents, next |-> "throw"]
    ELSE
    LET heightDownloaded == dbHeight(db, l1.tipHashHex) IN
    \* getHeaderFromHeight(heightDownloaded)!.hashHex of no header
    IF ~dbHasHeight(db, heightDownloaded)
    THEN [session |-> l1, events |-> NoEvents, next |-> "throw"]
    ELSE
    LET events == newChainTipEvents(nAdded, heightDownloaded, headers) IN
    IF nAdded = 0 /\ lastTipHashHex = l1.tipHashHex
    THEN [session |-> l1, events |-> events, next |-> "break"]
    ELSE IF slowPeerGuard(l1, db, heightDownloaded, Len(headers))
    THEN IF timeSince = "undefined"
         THEN [session |-> l1, events |-> events, next |-> "getHeaders"]
         ELSE IF timeSince = "recent"
         THEN [session |-> l1, events |-> events, next |-> "sleep"]
         ELSE [session |-> afterSlowPeerWait(l1), events |-> events,
               next |-> "reset"]
    ELSE [session |-> l1, events |-> events, next |-> "getHeaders"]

\* What becomes of the session after a step of the loop.  The handlers of
\* out_of_sync and invalid_blocks destroy the session; a throw makes the
\* catch of syncHeaders reset _tipHashHex and leaves _syncHeadersQueue
\* rejected, so that no later call runs a loop.
loopPcAfter(next, events) ==
    IF \E i \in 1 .. Len(events) :
          events[i].name \in {"out_of_sync", "invalid_blocks"}
    THEN "destroyed"
    ELSE IF next = "throw" THEN "rejected"
    ELSE IF next = "break" THEN "idle"
    ELSE IF next = "sleep" THEN "sleep"
    ELSE "getHeaders"

loopSessionAfter(l, next) ==
    IF next = "throw" THEN [l EXCEPT !.tipHashHex = l.startingTipHashHex]
    ELSE l

\* The step of the loop as the state of this part.
LoopStep(name, r, headers) ==
    /\ loopPc' = loopPcAfter(r.next, r.events)
    /\ loopSession' = loopSessionAfter(r.session, r.next)
    /\ loopOp' = [name |-> name, events |-> r.events, headers |-> headers,
                  resets |-> loopOp.resets
                               + (IF r.next = "reset" THEN 1 ELSE 0),
                  headersSinceReset |->
                      IF r.next = "reset" THEN FALSE
                      ELSE loopOp.headersSinceReset \/ Len(headers) > 0,
                  sent |-> r.next \in {"getHeaders", "reset"}]

\* syncHeaders is called on the idle session and its loop starts: it takes
\* the block locator and sends getheaders.
LoopStart ==
    /\ loopPc = "idle"
    /\ loopPc' = "getHeaders"
    /\ loopSession' = [loopSession EXCEPT
                         !.waitedForOtherNodeToSync = FALSE,
                         !.fromLocator = TRUE]
    /\ loopOp' = [name |-> "start", events |-> NoEvents, headers |-> <<>>,
                  resets |-> 0,
                  headersSinceReset |-> FALSE, sent |-> TRUE]

\* getHeaders rejects (timeout, close, abort): the loop throws.
LoopGetHeadersRejected ==
    /\ loopPc = "getHeaders"
    /\ LoopStep("rejected",
                [session |-> loopSession, events |-> NoEvents,
                 next |-> "throw"], <<>>)

\* abortableSleepMsThrow resolves: the loop sleeps again while the tip was
\* extended less than 5 s ago, and otherwise ends the wait.
LoopWake ==
    /\ loopPc = "sleep"
    /\ LoopStep("wake",
                IF lastTimeChainTipExtended = "recent"
                THEN [session |-> loopSession, events |-> NoEvents,
                      next |-> "sleep"]
                ELSE [session |-> afterSlowPeerWait(loopSession),
                      events |-> NoEvents, next |-> "reset"],
                <<>>)

\* The sleep is aborted, or the session is found not connected after it.
LoopWakeThrows ==
    /\ loopPc = "sleep"
    /\ LoopStep("wakeThrows",
                [session |-> loopSession, events |-> NoEvents,
                 next |-> "throw"], <<>>)

\* Five seconds pass without an extension of the longest chain.
ChainTipGrowsOld ==
    /\ lastTimeChainTipExtended = "recent"
    /\ lastTimeChainTipExtended' = "old"
    /\ loopOp' = [loopOp EXCEPT !.name = "time", !.events = NoEvents,
                                !.headers = <<>>, !.sent = FALSE]
    /\ UNCHANGED <<loopPc, loopSession>>

\* ------------------------------------------------------------------------
\* The loop over the graph of Part 1
\* ------------------------------------------------------------------------

\* Longest headers message of a peer in this part.
MaxPeerBatch == 2

PeerBatches == SeqUpTo(Hashes \ {GENESIS}, MaxPeerBatch)

\* getHeaders resolves with the headers of the peer, whatever they are.
GraphLoopHeaders ==
    /\ loopPc = "getHeaders"
    /\ ~exited
    /\ \E headers \in PeerBatches :
         LET r == insert(Graph, headers)
             changed ==
                 Len(r.changes.headersRemovedFromLongestChain)
                   + Len(r.changes.headersAddedToLongestChain) > 0
             timeSince == IF Len(headers) > 0 /\ changed THEN "recent"
                          ELSE lastTimeChainTipExtended
         IN /\ IF Len(headers) = 0
               THEN UNCHANGED <<graphVars, callVars, exited>>
               ELSE addHeaders(headers, "addHeaders")
            /\ lastTimeChainTipExtended' = timeSince
            /\ LoopStep("headers",
                        syncHeadersIteration(loopSession, headers,
                          graphDb(Graph), graphDb(r.g), r.changes,
                          timeSince),
                        headers)
    /\ UNCHANGED <<tallTipHeight, tallForks>>

\* pruneBranches, called by the client when no session syncs.
GraphLoopPrune ==
    /\ loopPc = "idle"
    /\ pruneBranches("pruneBranches")
    /\ loopOp' = [loopOp EXCEPT !.name = "prune", !.events = NoEvents,
                                !.headers = <<>>, !.sent = FALSE]
    /\ UNCHANGED <<loopPc, loopSession, lastTimeChainTipExtended,
                   tallTipHeight, tallForks>>

notLoopVars == <<locatorVars, sessionVars, clientVars, nodesVars,
                 frameVars, poolEventVars, workerVars, saveVars,
                 syncPoolVars,
                 keepaliveVars,
                 transportVars,
                 headerVars>>

GraphLoopNext ==
    \/ LoopStart /\ UNCHANGED <<graphVars, callVars, exited, lastTimeChainTipExtended, tallTipHeight, tallForks, notLoopVars>>
    \/ LoopGetHeadersRejected /\ UNCHANGED <<graphVars, callVars, exited, lastTimeChainTipExtended, tallTipHeight, tallForks, notLoopVars>>
    \/ GraphLoopHeaders /\ UNCHANGED notLoopVars
    \/ GraphLoopPrune /\ UNCHANGED notLoopVars

GraphLoopSpec == Init /\ [][GraphLoopNext]_vars

\* ------------------------------------------------------------------------
\* The loop over a tall chain: one longest chain whose header at height h
\* has hash h, and fork headers, of hash -h, that follow its header h - 1.
\* ------------------------------------------------------------------------

\* The heights of the tall chain: headers are downloaded one or two at a
\* time up to MaxLowHeight and from OUT_OF_SYNC_BLOCKS up to MaxTallHeight;
\* in between another session extends the chain in one step.
MaxLowHeight == 3

MaxTallHeight == 103

TallHeights ==
    (0 .. MaxLowHeight) \cup (OUT_OF_SYNC_BLOCKS .. MaxTallHeight)

\* _insert for a run of headers of the longest chain, or for one fork
\* header no higher than the tip: the headers already known are dropped, a
\* run whose first new header does not follow the tip is a broken chain,
\* a fork header has less work than the tip.
tallInsert(tipHeight, forks, headers) ==
    IF Len(headers) = 0 \/ Last(headers) \in (0 .. tipHeight) \cup forks
    THEN [tipHeight |-> tipHeight, forks |-> forks, changes |-> EmptyChanges]
    ELSE IF headers[1] < 0
    THEN [tipHeight |-> tipHeight, forks |-> forks \cup {headers[1]},
          changes |-> EmptyChanges]
    ELSE IF headers[1] > tipHeight + 1
    THEN [tipHeight |-> tipHeight, forks |-> forks, changes |-> EmptyChanges]
    ELSE [tipHeight |-> Last(headers), forks |-> forks,
          changes |-> [EmptyChanges EXCEPT
             !.headersAddedToLongestChain =
                [i \in 1 .. Last(headers) - tipHeight |-> tipHeight + i]]]

\* The headers a peer sends for the request of the loop: none, one or two
\* headers of the longest chain that follow a header the peer shares with
\* the request, or a fork header beside the tip.
TallPeerHeaders ==
    LET anchors == IF loopSession.fromLocator
                   THEN {0, tallTipHeight}
                   ELSE {tallHeight(loopSession.tipHashHex)}
    IN {<<>>}
       \cup {<<a + 1>> : a \in {b \in anchors : b + 1 \in TallHeights}}
       \cup {<<a + 1, a + 2>> :
               a \in {b \in anchors : b + 1 \in TallHeights
                                        /\ b + 2 \in TallHeights}}
       \cup {<<-tallTipHeight>> :
               a \in {b \in anchors : tallTipHeight > 0 /\ tallForks = {}
                                        /\ loopSession.fromLocator}}

TallLoopHeaders ==
    /\ loopPc = "getHeaders"
    /\ \E headers \in TallPeerHeaders :
         LET r == tallInsert(tallTipHeight, tallForks, headers)
             timeSince == IF r.tipHeight # tallTipHeight THEN "recent"
                          ELSE lastTimeChainTipExtended
         IN /\ tallTipHeight' = r.tipHeight
            /\ tallForks' = r.forks
            /\ lastTimeChainTipExtended' = timeSince
            /\ LoopStep("headers",
                        syncHeadersIteration(loopSession, headers,
                          tallDb(tallTipHeight, tallForks),
                          tallDb(r.tipHeight, r.forks), r.changes,
                          timeSince),
                        headers)

\* Another session downloads headers that extend the longest chain by
\* OUT_OF_SYNC_BLOCKS headers.
TallOtherPeerExtends ==
    /\ tallTipHeight + OUT_OF_SYNC_BLOCKS <= MaxTallHeight
    /\ tallTipHeight' = tallTipHeight + OUT_OF_SYNC_BLOCKS
    /\ lastTimeChainTipExtended' = "recent"
    /\ loopOp' = [loopOp EXCEPT !.name = "otherPeer", !.events = NoEvents,
                                !.headers = <<>>, !.sent = FALSE]
    /\ UNCHANGED <<loopPc, loopSession, tallForks>>

\* pruneBranches, called by the client when no session syncs: the headers
\* beside the longest chain are deleted.
TallPrune ==
    /\ loopPc = "idle"
    /\ tallForks # {}
    /\ tallForks' = {}
    /\ loopOp' = [loopOp EXCEPT !.name = "prune", !.events = NoEvents,
                                !.headers = <<>>, !.sent = FALSE]
    /\ UNCHANGED <<loopPc, loopSession, lastTimeChainTipExtended,
                   tallTipHeight>>

\* BlockHeadersDatabase.fromDatabase before the session exists: the headers
\* of the file are inserted without addHeaders, so that no time of a chain
\* tip extension is recorded.
TallFromDatabase ==
    /\ loopOp.name = "none"
    /\ tallTipHeight = 0
    /\ tallTipHeight' = OUT_OF_SYNC_BLOCKS
    /\ loopOp' = [loopOp EXCEPT !.name = "fromDatabase"]
    /\ UNCHANGED <<loopPc, loopSession, lastTimeChainTipExtended,
                   tallForks>>

notTallLoopVars == <<graphVars, callVars, exited, notLoopVars,
                     keepaliveVars,
                     transportVars,
                     headerVars>>

TallLoopNext ==
    \/ LoopStart /\ UNCHANGED <<lastTimeChainTipExtended, tallTipHeight, tallForks, notTallLoopVars>>
    \/ LoopGetHeadersRejected /\ UNCHANGED <<lastTimeChainTipExtended, tallTipHeight, tallForks, notTallLoopVars>>
    \/ LoopWake /\ UNCHANGED <<lastTimeChainTipExtended, tallTipHeight, tallForks, notTallLoopVars>>
    \/ LoopWakeThrows /\ UNCHANGED <<lastTimeChainTipExtended, tallTipHeight, tallForks, notTallLoopVars>>
    \/ ChainTipGrowsOld /\ UNCHANGED <<tallTipHeight, tallForks, notTallLoopVars>>
    \/ TallLoopHeaders /\ UNCHANGED notTallLoopVars
    \/ TallOtherPeerExtends /\ UNCHANGED notTallLoopVars
    \/ TallPrune /\ UNCHANGED notTallLoopVars
    \/ TallFromDatabase /\ UNCHANGED notTallLoopVars

TallLoopSpec == Init /\ [][TallLoopNext]_vars

\* ------------------------------------------------------------------------
\* Properties of Part 11
\* ------------------------------------------------------------------------

\* The last step emitted this event.
Emitted(name) ==
    \E i \in 1 .. Len(loopOp.events) : loopOp.events[i].name = name

\* C31: out_of_sync is emitted only in a step in which the peer returned
\* no headers, the tip the session knows of the peer is neither the
\* starting tip nor the tip of the graph, and that tip is at least 100
\* blocks below the tip of the graph; it is never emitted when that tip is
\* within 100 blocks of the tip of the graph.
C31_OutOfSyncOnlyFarBehind ==
    Emitted("out_of_sync") =>
       /\ loopOp.name = "headers"
       /\ loopOp.headers = <<>>
       /\ loopSession.tipHashHex # loopSession.startingTipHashHex
       /\ loopSession.tipHashHex # tallTipHeight
       /\ tallHeight(loopSession.tipHashHex) + OUT_OF_SYNC_BLOCKS
            <= tallTipHeight
       /\ ~(tallTipHeight - tallHeight(loopSession.tipHashHex)
              <= OUT_OF_SYNC_BLOCKS)

\* The last step ended the wait of the slow-peer guard.
WaitEnded ==
    /\ loopOp.name \in {"headers", "wake"}
    /\ loopOp.resets > 0
    /\ ~loopOp.headersSinceReset
    /\ loopOp.sent

\* C32: in one loop the wait of the slow-peer guard ends at most once and
\* the loop never sleeps again after it; the wait ends only when the chain
\* tip was not extended for 5 s, and then the session has its tip reset to
\* the starting tip and requests with the block locator; as long as the
\* peer sent no headers after the wait, no out_of_sync is emitted in that
\* loop.
C32_SlowPeerGuardOnce ==
    /\ loopOp.resets <= 1
    /\ loopPc = "sleep" => loopOp.resets = 0
    /\ WaitEnded =>
          /\ lastTimeChainTipExtended = "old"
          /\ loopPc = "getHeaders"
          /\ loopSession.waitedForOtherNodeToSync
          /\ loopSession.fromLocator
          /\ loopSession.tipHashHex = loopSession.startingTipHashHex
    /\ loopOp.resets > 0 /\ ~loopOp.headersSinceReset
          => ~Emitted("out_of_sync")

\* The loop slept, the wait ended, and the peer then returned no headers
\* while the chain tip was more than 100 blocks above the headers the peer
\* had sent before the wait.
C32_Witness ==
    /\ loopOp.resets = 1
    /\ loopOp.name = "headers"
    /\ loopOp.headers = <<>>
    /\ ~loopOp.headersSinceReset
    /\ loopPc = "idle"
    /\ tallTipHeight > OUT_OF_SYNC_BLOCKS

\* C33: when addHeaders reports invalidated headers for the headers of the
\* peer, the only event of the step is invalid_blocks with that list, no
\* new_chain_tip is emitted for the batch, no further getheaders is sent
\* and the loop is left (the handler of the client destroys the session).
C33_InvalidBlocksBreak ==
    /\ loopOp.name = "headers"
    /\ Len(loopOp.headers) > 0
    /\ Len(changes.headersInvalidated) > 0
    => /\ loopOp.events =
            <<Event("invalid_blocks", 0, 0, changes.headersInvalidated)>>
       /\ ~Emitted("new_chain_tip")
       /\ ~loopOp.sent
       /\ loopPc = "destroyed"

\* A batch that both extended the longest chain and held an invalid block.
C33_Witness ==
    /\ loopOp.name = "headers"
    /\ Len(changes.headersInvalidated) > 0
    /\ Len(changes.headersAddedToLongestChain) > 0
    /\ Emitted("invalid_blocks")

\* C34: a step whose addHeaders result has added headers (and no
\* invalidated ones) emits new_chain_tip; every new_chain_tip carries the
\* height and the hash of the tip of the graph at that moment; none is
\* emitted when no header was added to the longest chain.
C34_NewChainTipIsGraphTip ==
    /\ loopOp.name = "headers"
    /\ Len(loopOp.headers) > 0
    /\ Len(changes.headersInvalidated) = 0
    => /\ Len(changes.headersAddedToLongestChain) > 0
            => Emitted("new_chain_tip")
       /\ \A i \in 1 .. Len(loopOp.events) :
             loopOp.events[i].name = "new_chain_tip" =>
                /\ loopOp.events[i].hashHex = Last(Graph.sorted)
                /\ loopOp.events[i].height = Len(Graph.sorted) - 1
       /\ Emitted("new_chain_tip")
            => Len(changes.headersAddedToLongestChain) > 0

\* ========================================================================
\* Part 12: LegacyNodeConnection._setPingInterval, the keepalive pings
\* ========================================================================

\* DEFAULT_intervalMs of the connection monitor, the period of the ticks.
DEFAULT_intervalMs == 20000

\* _defaultTimeoutMs of a session, the timeout of a ping.
defaultTimeoutMs == 8000

\* getTimeSinceLastKnownConnectionMs() < 1000
RECENT_CONNECTION_MS == 1000

\* performance.now() - lastPingIntervalTimeMs < 10 * 60 * 1000
TEN_MINUTES_MS == 600000

\* Time passes in steps of half a ping timeout.
TimeStepMs == defaultTimeoutMs \div 2

\* The time up to which the interval is followed.
MaxKeepaliveMs == 664000

\* The values getTimeSinceLastKnownConnectionMs() is read as at a tick: the
\* time is process-wide and every session's traffic updates it.
TimesSinceLastKnownConnection ==
    {0, RECENT_CONNECTION_MS - 1, RECENT_CONNECTION_MS, DEFAULT_intervalMs}

\* The tick returns early whenever the known connection time is recent.
skipPingWhenRecent(timeSince, elapsed) ==
    timeSince < RECENT_CONNECTION_MS

\* The test of the tick that returns without a ping.
skipPing(timeSince, elapsed) ==
    /\ timeSince < RECENT_CONNECTION_MS
    /\ elapsed < TEN_MINUTES_MS

\* _setPingInterval: the interval is set unless it is set already.
SetPingInterval ==
    /\ keepaliveReady
    /\ pingNextTickMs = -1
    /\ pingNextTickMs' = pingNowMs + DEFAULT_intervalMs
    /\ lastPingIntervalTimeMs' = INIT_lastKnownConnectionTimeMs
    /\ keepaliveOp' = [keepaliveOp EXCEPT !.name = "setPingInterval",
                                          !.pinged = FALSE,
                                          !.lastPingMs = pingNowMs]
    /\ UNCHANGED <<pingNowMs, keepalivePongs, keepaliveReady>>

\* Time passes up to the next timer that is due: the tick of the interval
\* or the timeout of a ping.
KeepaliveTimePasses ==
    /\ pingNextTickMs # -1
    /\ pingNowMs + TimeStepMs <= MaxKeepaliveMs
    /\ pingNowMs + TimeStepMs <= pingNextTickMs
    /\ \A startTimeMs \in keepalivePongs :
          pingNowMs + TimeStepMs <= startTimeMs + defaultTimeoutMs
    /\ pingNowMs' = pingNowMs + TimeStepMs
    /\ keepaliveOp' = [keepaliveOp EXCEPT !.name = "time", !.pinged = FALSE]
    /\ UNCHANGED <<pingNextTickMs, lastPingIntervalTimeMs, keepalivePongs,
                   keepaliveReady>>

\* A tick of the interval on the connected session, up to the await of the
\* ping: the callback returns or sends a ping.
PingIntervalTick ==
    /\ keepaliveReady
    /\ pingNextTickMs = pingNowMs
    /\ \E timeSince \in TimesSinceLastKnownConnection :
         LET elapsed == pingNowMs - lastPingIntervalTimeMs
             skip == skipPing(timeSince, elapsed)
         IN /\ keepalivePongs' = IF skip THEN keepalivePongs
                                 ELSE keepalivePongs \cup {pingNowMs}
            /\ keepaliveOp' = [name |-> "tick", timeSince |-> timeSince,
                               elapsed |-> elapsed, pinged |-> ~skip,
                               lastPingMs |-> IF skip
                                              THEN keepaliveOp.lastPingMs
                                              ELSE pingNowMs]
    /\ pingNextTickMs' = pingNowMs + DEFAULT_intervalMs
    /\ UNCHANGED <<pingNowMs, lastPingIntervalTimeMs, keepaliveReady>>

\* The pong of a ping arrives: ping resolves and the callback of the tick
\* goes on after its await, lastPingIntervalTimeMs = performance.now().
KeepalivePong ==
    /\ keepaliveReady
    /\ \E startTimeMs \in keepalivePongs :
         keepalivePongs' = keepalivePongs \ {startTimeMs}
    /\ lastPingIntervalTimeMs' = pingNowMs
    /\ keepaliveOp' = [keepaliveOp EXCEPT !.name = "pong", !.pinged = FALSE]
    /\ UNCHANGED <<pingNowMs, pingNextTickMs, keepaliveReady>>

\* The timeout of a ping: _disconnectNoEmit clears the interval and rejects
\* the pings; the callback of the tick catches the error and goes on.
KeepalivePingTimeout ==
    /\ keepaliveReady
    /\ \E startTimeMs \in keepalivePongs :
         pingNowMs = startTimeMs + defaultTimeoutMs
    /\ keepaliveReady' = FALSE
    /\ keepalivePongs' = {}
    /\ pingNextTickMs' = -1
    /\ lastPingIntervalTimeMs' = pingNowMs
    /\ keepaliveOp' = [keepaliveOp EXCEPT !.name = "timeout",
                                          !.pinged = FALSE]
    /\ UNCHANGED pingNowMs

notKeepaliveVars == <<graphVars, callVars, exited, locatorVars, sessionVars,
                      clientVars, nodesVars, frameVars, poolEventVars,
                      workerVars, saveVars, syncPoolVars, loopVars,
                      transportVars,
                      headerVars>>

KeepaliveNext ==
    \/ SetPingInterval /\ UNCHANGED notKeepaliveVars
    \/ KeepaliveTimePasses /\ UNCHANGED notKeepaliveVars
    \/ PingIntervalTick /\ UNCHANGED notKeepaliveVars
    \/ KeepalivePong /\ UNCHANGED notKeepaliveVars
    \/ KeepalivePingTimeout /\ UNCHANGED notKeepaliveVars

KeepaliveSpec == Init /\ [][KeepaliveNext]_vars

\* C35: a tick on the connected session returns without a ping exactly
\* when the known connection time is less than a second old and the last
\* keepalive ping ended less than 10 minutes ago; and while the session is
\* connected and its interval is set, the last ping of the interval (or the
\* setting of the interval) is never more than 10 minutes and one tick ago.
C35_KeepalivePingEveryTenMinutes ==
    /\ keepaliveOp.name = "tick" =>
          (~keepaliveOp.pinged <=>
              /\ keepaliveOp.timeSince < RECENT_CONNECTION_MS
              /\ keepaliveOp.elapsed < TEN_MINUTES_MS)
    /\ keepaliveReady /\ pingNextTickMs # -1 =>
          pingNowMs - keepaliveOp.lastPingMs
             <= TEN_MINUTES_MS + DEFAULT_intervalMs

\* A tick pinged, with the known connection time fresh, because the last
\* ping had ended 10 minutes ago or more; the tick before it was skipped.
C35_Witness ==
    /\ keepaliveOp.name = "tick"
    /\ keepaliveOp.pinged
    /\ keepaliveOp.timeSince < RECENT_CONNECTION_MS
    /\ keepaliveOp.elapsed >= TEN_MINUTES_MS
    /\ keepaliveOp.elapsed < TEN_MINUTES_MS + DEFAULT_intervalMs

\* ------------------------------------------------------------------------
\* Properties of addRecentUnintentionalDisconnectTimesMs
\* ------------------------------------------------------------------------

\* The metrics the peer of the last call had before it, those of a new
\* peer when the database did not know it.
MetricsBeforeCall ==
    IF CalledPeer \in DOMAIN nodesPre.metrics
    THEN nodesPre.metrics[CalledPeer]
    ELSE createDefaultNodeConnectionMetrics(nodesOp.timeMs)

\* The connect and ping timestamps of the metrics.
ConnectAndPingTimes(metrics) ==
    (IF metrics.lastConnectTimeMs = UNDEFINED THEN {}
     ELSE {metrics.lastConnectTimeMs})
      \cup {metrics.recentPingTimes[i].pingTimestampMs :
               i \in 1 .. Len(metrics.recentPingTimes)}

\* C36: addRecentUnintentionalDisconnectTimesMs appends the disconnect to
\* the after-connect list when it is less than four weeks after a connect
\* or ping timestamp of the peer, and to the before-connect list otherwise
\* (so for a peer with no connect and no ping); the other list is left as
\* it was.
C36_DisconnectClassified ==
    nodesOp.name = "addRecentUnintentionalDisconnectTimesMs" =>
        LET metricsPre == MetricsBeforeCall
            metricsPost == ipPortStringToMetrics[CalledPeer]
            t == nodesOp.timeMs
            afterConnect ==
                \E stamp \in ConnectAndPingTimes(metricsPre) : t < stamp + FOUR_WEEKS
        IN  IF afterConnect
            THEN /\ metricsPost.recentUnintentionalDisconnectAfterConnectTimesMs =
                      PushShift(
                        metricsPre.recentUnintentionalDisconnectAfterConnectTimesMs,
                        t, 10)
                 /\ metricsPost.recentUnintentionalDisconnectBeforeConnectTimesMs =
                      metricsPre.recentUnintentionalDisconnectBeforeConnectTimesMs
            ELSE /\ metricsPost.recentUnintentionalDisconnectBeforeConnectTimesMs =
                      PushShift(
                        metricsPre.recentUnintentionalDisconnectBeforeConnectTimesMs,
                        t, 10)
                 /\ metricsPost.recentUnintentionalDisconnectAfterConnectTimesMs =
                      metricsPre.recentUnintentionalDisconnectAfterConnectTimesMs

\* A disconnect four weeks or more after the last connect of the peer and
\* less than four weeks after its last ping went to the after-connect list.
C36_Witness ==
    /\ nodesOp.name = "addRecentUnintentionalDisconnectTimesMs"
    /\ CalledPeer \in DOMAIN nodesPre.metrics
    /\ nodesPre.metrics[CalledPeer].lastConnectTimeMs # UNDEFINED
    /\ nodesOp.timeMs >=
          nodesPre.metrics[CalledPeer].lastConnectTimeMs + FOUR_WEEKS
    /\ Len(nodesPre.metrics[CalledPeer].recentPingTimes) > 0
    /\ ipPortStringToMetrics[CalledPeer]
          .recentUnintentionalDisconnectAfterConnectTimesMs
         = <<nodesOp.timeMs>>

\* C37: the sessions of _nodeConnectionsConnected are sessions of
\* _nodeConnections, and a session that was destroyed is in neither map;
\* a worker creates a session only for an address that is in no map.
C37_VerifiedAmongAllSessions ==
    /\ testedConnected \subseteq testedConnections
    /\ workerOp.name = "connect" =>
          /\ workerOp.session \in testedConnections
          /\ workerOp.session \notin testedConnected

\* ========================================================================
\* Part 13: the events of a session per termination of its transport
\* ========================================================================

\* The listeners of the socket are left on it when it is destroyed.
listenersKept(attached) == attached

\* this._socket.removeAllListeners() in _disconnectNoEmit
removeAllListeners(attached) == FALSE

\* What becomes of the socket of the session in a step: a socket that the
\* step destroys (this._socket.destroy()) emits its 'close' later.
SocketFollows ==
    /\ lateClosePending' = IF socket /\ ~socket' THEN TRUE
                           ELSE lateClosePending
    /\ lateCloseListeners' = IF socket /\ ~socket'
                             THEN removeAllListeners(TRUE)
                             ELSE lateCloseListeners

\* [Symbol.dispose]: _disconnectNoEmit and no event.
Dispose ==
    /\ LET d == disconnectNoEmit(Session)
       IN SessionStep("dispose", Outcome(d.s, <<>>, d.settled, "returned"),
                      0, 0)
    /\ UNCHANGED aborted

\* The destroyed socket emits 'close': the listener of connect() runs if
\* it is still on the socket.
LateSocketClose ==
    /\ lateClosePending
    /\ ~MicrotaskDue
    /\ SessionStep("lateClose",
                   IF lateCloseListeners THEN socketErrorOrClose(Session)
                   ELSE Outcome(Session, <<>>, {}, "none"),
                   0, 0)
    /\ lateClosePending' = FALSE
    /\ lateCloseListeners' = FALSE
    /\ UNCHANGED aborted

notTransportVars == <<graphVars, callVars, exited, locatorVars, clientVars,
                      nodesVars, frameVars, poolEventVars, workerVars,
                      saveVars, syncPoolVars, loopVars, keepaliveVars,
                      headerVars>>

TransportNext ==
    \/ Connect /\ SocketFollows /\ UNCHANGED notTransportVars
    \/ ConnectTimeout /\ SocketFollows /\ UNCHANGED notTransportVars
    \/ SocketErrorOrClose /\ SocketFollows /\ UNCHANGED notTransportVars
    \/ RecvMessage /\ SocketFollows /\ UNCHANGED notTransportVars
    \/ RecvParseError /\ SocketFollows /\ UNCHANGED notTransportVars
    \/ Ping /\ SocketFollows /\ UNCHANGED notTransportVars
    \/ PingTimeout /\ SocketFollows /\ UNCHANGED notTransportVars
    \/ GetHeaders /\ SocketFollows /\ UNCHANGED notTransportVars
    \/ GetHeadersTimeout /\ SocketFollows /\ UNCHANGED notTransportVars
    \/ GetAddr /\ SocketFollows /\ UNCHANGED notTransportVars
    \/ GetAddrTimeout /\ SocketFollows /\ UNCHANGED notTransportVars
    \/ AbortToken /\ SocketFollows /\ UNCHANGED notTransportVars
    \/ Disconnect /\ SocketFollows /\ UNCHANGED notTransportVars
    \/ Dispose /\ SocketFollows /\ UNCHANGED notTransportVars
    \/ LateSocketClose /\ UNCHANGED notTransportVars
    \/ SessionReturn /\ UNCHANGED <<transportVars, notTransportVars>>

TransportSpec == Init /\ [][TransportNext]_vars

\* The disconnect events the handler that ran last emitted.
NumDisconnectEvents ==
    Cardinality({i \in 1 .. Len(emitted) :
                    emitted[i] \in {"disconnect", BEFORE_CONNECT,
                                    AFTER_CONNECT}})

\* The handler that ran last found a socket and left none.
TransportTerminated == trigger # "idle" /\ pre.session.socket /\ ~socket

\* C38 as it is stated: a handler that terminates the transport emits
\* exactly one of the three disconnect events, and a handler that does not
\* (the session had no socket, or keeps it) emits none.
C38_ExactlyOneDisconnectEvent ==
    /\ TransportTerminated => NumDisconnectEvents = 1
    /\ trigger # "idle" /\ ~TransportTerminated => NumDisconnectEvents = 0

\* C38, amended: a handler that terminates the transport emits exactly one
\* of the three disconnect events, unless it is dispose, which emits none;
\* a handler that does not terminate it emits none, unless it is
\* disconnect() called on a session without a socket, which emits
\* disconnect; the late 'close' of a destroyed socket emits nothing and
\* leaves the session as it is.
C38_OneDisconnectEventButDispose ==
    /\ TransportTerminated =>
          NumDisconnectEvents = IF trigger = "dispose" THEN 0 ELSE 1
    /\ trigger # "idle" /\ ~TransportTerminated =>
          NumDisconnectEvents = IF trigger = "disconnect" THEN 1 ELSE 0
    /\ trigger = "lateClose" => emitted = <<>> /\ Session = pre.session

\* The socket of a session that had been Ready was destroyed, and its
\* late 'close' then ran no listener.
C38_Witness ==
    /\ trigger = "lateClose"
    /\ ~socket
    /\ ~lateClosePending
    /\ everReady
    /\ emitted = <<>>

\* ------------------------------------------------------------------------
\* Deleting peers: _deleteMetrics behind deleteNode, clearOld and
\* clearBlacklisted, next to the metric event handlers.
\* ------------------------------------------------------------------------
\* The history of a peer the database does not know.
NoNodesEvents == [ping |-> <<>>, before |-> <<>>, after |-> <<>>]

\* _deleteMetrics: the metrics, the rating and the seen time of the peer go;
\* _nonBlacklistedIpPortStrings is not touched.
deleteMetrics(db, ipPortString) ==
    [db EXCEPT
        !.metrics = MapDeleteAll(@, {ipPortString}),
        !.rating = MapDeleteAll(@, {ipPortString}),
        !.seen = IF ipPortString \in DOMAIN db.metrics
                 THEN @ \ {<<db.metrics[ipPortString].lastSeenTimeMs,
                             ipPortString>>}
                 ELSE @]

\* The first loop of clearOld: the sets of peers it may collect, going
\* through the seen time index from the oldest time on and passing over
\* the excluded peers.  Peers seen at one time come in the order they
\* were added to the set of that time, which the model does not keep.
oldestSeenFirst(db, numToRemove, excludedIpPortStrings) ==
    LET entries == {s \in db.seen : s[2] \notin excludedIpPortStrings}
    IN  {ipPortStringsToDelete \in SUBSET {s[2] : s \in entries} :
            /\ \/ Cardinality(ipPortStringsToDelete) = numToRemove
               \/ /\ Cardinality(ipPortStringsToDelete) < numToRemove
                  /\ ipPortStringsToDelete = {s[2] : s \in entries}
            /\ \A s \in entries, t \in entries :
                   /\ s[2] \in ipPortStringsToDelete
                   /\ t[2] \notin ipPortStringsToDelete
                   => s[1] <= t[1]}

\* The second loop of clearOld: the collected peers leave the seen time
\* index, the metrics, the ratings and the set of the peers that are not
\* blacklisted.
clearOld(db, ipPortStringsToDelete) ==
    [db EXCEPT
        !.seen = @ \ {<<db.metrics[p].lastSeenTimeMs, p>> :
                         p \in ipPortStringsToDelete},
        !.metrics = MapDeleteAll(@, ipPortStringsToDelete),
        !.rating = MapDeleteAll(@, ipPortStringsToDelete),
        !.nonBlacklisted = @ \ ipPortStringsToDelete]

\* The first loop of clearBlacklisted: the sets of peers it may collect,
\* going through the rating index from the lowest rating up to the
\* blacklist threshold and passing over the excluded peers.
lowestRatingFirst(db, numToRemove, excludedIpPortStrings) ==
    LET blacklisted == {p \in DOMAIN db.rating :
                           /\ db.rating[p] < blacklistedRatingThreshold
                           /\ p \notin excludedIpPortStrings}
    IN  {ipPortStringsToDelete \in SUBSET blacklisted :
            /\ \/ Cardinality(ipPortStringsToDelete) = numToRemove
               \/ /\ Cardinality(ipPortStringsToDelete) < numToRemove
                  /\ ipPortStringsToDelete = blacklisted
            /\ \A p \in ipPortStringsToDelete :
                   \A q \in blacklisted \ ipPortStringsToDelete :
                       db.rating[p] <= db.rating[q]}

\* The second loop of clearBlacklisted: the collected peers leave the
\* ratings, the seen time index and the metrics.
clearBlacklisted(db, ipPortStringsToDelete) ==
    [db EXCEPT
        !.rating = MapDeleteAll(@, ipPortStringsToDelete),
        !.seen = @ \ {<<db.metrics[p].lastSeenTimeMs, p>> :
                         p \in ipPortStringsToDelete},
        !.metrics = MapDeleteAll(@, ipPortStringsToDelete)]

\* The peers of a call are gone: their history starts again.
NodesDeleted(ipPortStrings) ==
    /\ nodesEvents' = [p \in Peers |->
                          IF p \in ipPortStrings THEN NoNodesEvents
                          ELSE nodesEvents[p]]
    /\ UNCHANGED ratingsUpdatedRecently

\* deleteNode(ipPort).
DeleteNode ==
    /\ numNodesCalls < MaxNodesCalls
    /\ \E p \in Peers :
           /\ NodesCalled("deleteNode", {p}, dateNow, FALSE,
                          deleteMetrics(NodesDb, p))
           /\ NodesDeleted({p})

\* clearOld({ amount, excludedIpPortStringsMap }).
ClearOld ==
    /\ numNodesCalls < MaxNodesCalls
    /\ \E numToRemove \in 1 .. MaxPeers, excludedIpPortStrings \in SUBSET Peers :
           \E ipPortStringsToDelete \in
                  oldestSeenFirst(NodesDb, numToRemove,
                                  excludedIpPortStrings) :
               /\ NodesCalled("clearOld", ipPortStringsToDelete, dateNow,
                              FALSE, clearOld(NodesDb, ipPortStringsToDelete))
               /\ NodesDeleted(ipPortStringsToDelete)

\* clearBlacklisted({ amount, excludedIpPortStringsMap }).
ClearBlacklisted ==
    /\ numNodesCalls < MaxNodesCalls
    /\ \E numToRemove \in 1 .. MaxPeers, excludedIpPortStrings \in SUBSET Peers :
           \E ipPortStringsToDelete \in
                  lowestRatingFirst(NodesDb, numToRemove,
                                  excludedIpPortStrings) :
               /\ NodesCalled("clearBlacklisted", ipPortStringsToDelete,
                              dateNow, FALSE,
                              clearBlacklisted(NodesDb, ipPortStringsToDelete))
               /\ NodesDeleted(ipPortStringsToDelete)

NodesDeleteNext ==
    \/ AddPingTimeMs /\ UNCHANGED notNodesVars
    \/ AddRecentUnintentionalDisconnectTimesMs /\ UNCHANGED notNodesVars
    \/ AddLastConnectTimeMs /\ UNCHANGED notNodesVars
    \/ AddLastConnectAndTestTimeMs /\ UNCHANGED notNodesVars
    \/ AddLastDataReceivedTimeMs /\ UNCHANGED notNodesVars
    \/ AddLastOutOfSyncTimeMs /\ UNCHANGED notNodesVars
    \/ AddLastInvalidChainDetectedTimeMs /\ UNCHANGED notNodesVars
    \/ AddSeen /\ UNCHANGED notNodesVars
    \/ AddSeenBatch /\ UNCHANGED notNodesVars
    \/ IsBlacklisted /\ UNCHANGED notNodesVars
    \/ GetNumNodesNonBlacklisted /\ UNCHANGED notNodesVars
    \/ RatingsUpdateGrowsOld /\ UNCHANGED notNodesVars
    \/ DeleteNode /\ UNCHANGED notNodesVars
    \/ ClearOld /\ UNCHANGED notNodesVars
    \/ ClearBlacklisted /\ UNCHANGED notNodesVars

NodesDeleteSpec == Init /\ [][NodesDeleteNext]_vars

\* getNumNodes: the size of the metrics map.
getNumNodes(db) == Cardinality(DOMAIN db.metrics)

\* C39: after metric events and calls of deleteNode, clearOld and
\* clearBlacklisted, every peer of the set of the peers that are not
\* blacklisted has metrics, and getNumNodesNonBlacklisted returns no more
\* than getNumNodes.
C39_NonBlacklistedAmongMetrics ==
    /\ nonBlacklistedIpPortStrings \subseteq DOMAIN ipPortStringToMetrics
    /\ nodesOp.name = "getNumNodesNonBlacklisted"
       => nodesOp.result <= getNumNodes(NodesDb)

\* ------------------------------------------------------------------------
\* Part 14: the height and the total work of a BlockHeaderMutable.
\* ------------------------------------------------------------------------
MaxHeaderHeight == 2

MaxHeaderWorkTotal == 2

MaxHeaderCalls == 4

\* A bug: the field counts as set only when it is truthy, so that height 0
\* can be replaced.
setWhenTruthy(field, value) ==
    IF field # NOT_SET /\ field # 0 /\ field # value
    THEN [threw |-> TRUE, field |-> field]
    ELSE [threw |-> FALSE, field |-> value]

\* setHeight and setWorkTotal, on the field each of them guards: the call
\* throws when the field is defined and not the value, else it assigns.
setOnce(field, value) ==
    IF field # NOT_SET /\ field # value
    THEN [threw |-> TRUE, field |-> field]
    ELSE [threw |-> FALSE, field |-> value]

\* A call on the header has returned or thrown.
HeaderCalled(name, value, threw) ==
    /\ headerOp' = [name |-> name, value |-> value, threw |-> threw,
                    height |-> headerHeight, workTotal |-> headerWorkTotal]
    /\ numHeaderCalls' = numHeaderCalls + 1

\* setHeight(height).
SetHeight ==
    /\ numHeaderCalls < MaxHeaderCalls
    /\ \E height \in 0 .. MaxHeaderHeight :
           LET r == setOnce(headerHeight, height)
           IN  /\ headerHeight' = r.field
               /\ HeaderCalled("setHeight", height, r.threw)
    /\ UNCHANGED headerWorkTotal

\* setWorkTotal(workTotal).
SetWorkTotal ==
    /\ numHeaderCalls < MaxHeaderCalls
    /\ \E workTotal \in 0 .. MaxHeaderWorkTotal :
           LET r == setOnce(headerWorkTotal, workTotal)
           IN  /\ headerWorkTotal' = r.field
               /\ HeaderCalled("setWorkTotal", workTotal, r.threw)
    /\ UNCHANGED headerHeight

\* fromBuffer of a genesis header (prevHashHex is GENESIS_PREV_HASH_HEX):
\* the constructor sets height 0 and the header's own work on the new
\* object.
FromBufferGenesis ==
    /\ numHeaderCalls < MaxHeaderCalls
    /\ \E work \in 1 .. MaxHeaderWorkTotal :
           /\ headerHeight' = setOnce(NOT_SET, 0).field
           /\ headerWorkTotal' = setOnce(NOT_SET, work).field
           /\ headerOp' = [name |-> "fromBuffer", value |-> work,
                           threw |-> FALSE, height |-> NOT_SET,
                           workTotal |-> NOT_SET]
    /\ numHeaderCalls' = numHeaderCalls + 1

notHeaderVars == <<graphVars, callVars, exited, locatorVars, sessionVars,
                   clientVars, nodesVars, frameVars, poolEventVars,
                   workerVars, saveVars, syncPoolVars, loopVars,
                   keepaliveVars, transportVars>>

HeaderNext ==
    \/ SetHeight /\ UNCHANGED notHeaderVars
    \/ SetWorkTotal /\ UNCHANGED notHeaderVars
    \/ FromBufferGenesis /\ UNCHANGED notHeaderVars

HeaderSpec == Init /\ [][HeaderNext]_vars

\* What a set-once setter leaves of the field it guards.
SetOnceHolds(fieldBefore, value, threw, fieldAfter) ==
    /\ fieldBefore = NOT_SET => ~threw /\ fieldAfter = value
    /\ fieldBefore = value => ~threw /\ fieldAfter = value
    /\ fieldBefore # NOT_SET /\ fieldBefore # value => threw /\ fieldAfter = fieldBefore

\* C40: setHeight and setWorkTotal accept the value the field already has,
\* and a different value once the field is set makes the call throw and
\* leaves the field as it was; the other field is not touched.
C40_HeightAndWorkTotalSetOnce ==
    /\ headerOp.name = "setHeight"
       => /\ SetOnceHolds(headerOp.height, headerOp.value, headerOp.threw,
                          headerHeight)
          /\ headerWorkTotal = headerOp.workTotal
    /\ headerOp.name = "setWorkTotal"
       => /\ SetOnceHolds(headerOp.workTotal, headerOp.value, headerOp.threw,
                          headerWorkTotal)
          /\ headerHeight = headerOp.height

\* setHeight(1) has thrown on a header of height 0 whose total work is
\* set.
C40_Witness ==
    /\ headerOp.name = "setHeight"
    /\ headerOp.threw
    /\ headerOp.height = 0
    /\ headerOp.value = 1
    /\ headerWorkTotal # NOT_SET

====
